---- MODULE Spec2Model ----
(***************************************************************************)
(* Order / payment consistency core of the marketplace backend:            *)
(*   POST /orders            (src/src/routes/orders.ts)                    *)
(*   POST /orders/:id/pay    (src/src/routes/payments.ts)                  *)
(*   POST /payments/webhook  (src/src/routes/payments.ts)                  *)
(*                                                                         *)
(* Store model.  Every handler runs one transaction on its own connection. *)
(* A locking read (SELECT ... FOR UPDATE) takes the row locks of the rows  *)
(* it returns, one row per step in primary-key order, waits while another  *)
(* transaction holds a row, and reads the latest committed version of the  *)
(* row.  Row locks are held until commit or rollback.  The writes of a     *)
(* transaction become visible to the others at commit, all at once; a      *)
(* rollback discards them.  Money is counted in integer units.             *)
(***************************************************************************)
EXTENDS Integers, Sequences, FiniteSets, TLC

----------------------------------------------------------------------------
(* Bounds *)

\* requests started in one behaviour of the checkout specification
MaxCheckouts == 2
\* quantity on hand of every product at start
InitQty == 2
\* requests started in one behaviour of the payment specifications
MaxPayOps == 2

\* lengths of the item list of a POST /orders body
ItemCounts == {1, 2}
\* concurrent requests (connections)
Procs == {1, 2}
\* authenticated customers
Users == {1, 2}
\* customers that check out
CheckoutUsers == {1}
\* product ids a request may name: 1..3 exist, 4 has no row
RequestPids == {1, 2, 3, 4}
\* quantities a request may name (0 is rejected by the validator)
RequestQtys == {0, 1, 2}

\* SQL NULL in an id column (ids start at 1)
NULL == 0

----------------------------------------------------------------------------
(* State *)

VARIABLES
  products,     \* products table: id -> [vendor_id, price, quantity]
  orders,       \* orders table: sequence indexed by id
  order_items,  \* order_items table: sequence of rows
  payments,     \* payments table: sequence indexed by id
  pc,           \* position of each request in its handler
  loc,          \* handler locals of each request
  want,         \* rows the current locking read has still to lock
  held,         \* row locks held by each request's transaction
  resp,         \* response sent by the last finished request of each slot
  products0,    \* products table at start
  nops,         \* requests started so far
  lastWh,       \* payload of the webhook delivered last, nothing since
  carts,        \* carts table: sequence indexed by id
  cart_items,   \* cart_items table: sequence indexed by id
  tx            \* transaction and pooled connection of each request

vars == <<products, orders, order_items, payments, pc, loc, want, held,
          resp, products0, nops, lastWh, carts, cart_items, tx>>

dbvars == <<products, orders, order_items, payments>>

cartvars == <<carts, cart_items>>

\* a request's transaction: "none" until beginTransaction, then "open",
\* "committed" or "rolled_back"; conn: a pooled connection is checked out
TxNone == [state |-> "none", conn |-> FALSE]

\* conn = await pool.getConnection(); await conn.beginTransaction()
TxOpen == [state |-> "open", conn |-> TRUE]

\* the success path without its commit
commitNever(t) == t

\* await conn.commit() went through
commit(t) == [t EXCEPT !.state = "committed"]

\* await conn.rollback(): nothing is undone once the commit went through
rollback(t) == [t EXCEPT !.state = IF @ = "open" THEN "rolled_back" ELSE @]

\* the connection stays checked out
releaseNever(t) == t

\* finally { if (conn) conn.release() }
release(t) == [t EXCEPT !.conn = FALSE]

SetTx(p, t) == tx' = [tx EXCEPT ![p] = t]

NoLoc == [op |-> "none"]
NoResp == [kind |-> "none"]

----------------------------------------------------------------------------
(* Row locks *)

ProductKey(id) == <<"products", id>>
OrderKey(id) == <<"orders", id>>
PaymentKey(id) == <<"payments", id>>

\* a plain read in place of the locking read: nobody waits
LockFreeNoWait(k, p) == TRUE

\* a locking read waits while another transaction holds the row
LockFree(k, p) == \A q \in Procs \ {p} : k \notin held[q]

RECURSIVE SortedSeq(_)
SortedSeq(S) ==
  IF S = {} THEN <<>>
  ELSE LET m == CHOOSE x \in S : \A y \in S : x <= y
       IN <<m>> \o SortedSeq(S \ {m})

----------------------------------------------------------------------------
(* POST /orders : pure parts *)

\* a chain that lets every body pass
CheckoutBodyAny(itemsInput) == TRUE

\* express-validator chain of the route
CheckoutBodyValid(itemsInput) ==
  /\ Len(itemsInput) >= 1
  /\ \A i \in 1..Len(itemsInput) :
       itemsInput[i].product_id >= 1 /\ itemsInput[i].quantity >= 1

\* the loop's own check: !pid || qty <= 0
ItemsInvalid(itemsInput) ==
  \E i \in 1..Len(itemsInput) :
    itemsInput[i].product_id = 0 \/ itemsInput[i].quantity <= 0

RECURSIVE AggregateFrom(_, _)
AggregateFrom(acc, rest) ==
  IF rest = <<>> THEN acc
  ELSE LET it == Head(rest)
           idx == {i \in 1..Len(acc) : acc[i].product_id = it.product_id}
       IN IF idx = {}
          THEN AggregateFrom(Append(acc, [product_id |-> it.product_id,
                                          quantity |-> it.quantity]),
                             Tail(rest))
          ELSE LET i == CHOOSE j \in idx : TRUE
               IN AggregateFrom([acc EXCEPT ![i].quantity = @ + it.quantity],
                                Tail(rest))

\* the item list taken as sent, repeated product ids not merged
itemsMapNoMerge(itemsInput) == itemsInput

\* itemsMap -> items: one entry per product id, in order of first occurrence
itemsMap(itemsInput) == AggregateFrom(<<>>, itemsInput)

\* the stock check off by one
StockShortOffByOne(p, it) == p.quantity + 1 < it.quantity

\* the check of one line against the locked product row
StockShort(p, it) == p.quantity < it.quantity

\* validate existence and stock, first failure wins
RECURSIVE ValidateItems(_, _)
ValidateItems(items, prodById) ==
  IF items = <<>> THEN [kind |-> "ok"]
  ELSE LET it == Head(items)
       IN IF it.product_id \notin DOMAIN prodById
          THEN [kind |-> "no_data", code |-> 200,
                product_id |-> it.product_id]
          ELSE IF StockShort(prodById[it.product_id], it)
          THEN [kind |-> "insufficient_stock", code |-> 400,
                product_id |-> it.product_id,
                requested |-> it.quantity,
                available |-> prodById[it.product_id].quantity]
          ELSE ValidateItems(Tail(items), prodById)

\* no vendor check
FirstOrphanNone(items, prodById) == NULL

\* first product without a vendor, or NULL
RECURSIVE FirstOrphan(_, _)
FirstOrphan(items, prodById) ==
  IF items = <<>> THEN NULL
  ELSE IF prodById[Head(items).product_id].vendor_id = NULL
       THEN Head(items).product_id
       ELSE FirstOrphan(Tail(items), prodById)

\* a group for every line
VendorOrderPerLine(acc, items, prodById) ==
  [i \in 1..Len(items) |-> prodById[items[i].product_id].vendor_id]

\* keys of itemsByVendor in insertion order
RECURSIVE VendorOrder(_, _, _)
VendorOrder(acc, items, prodById) ==
  IF items = <<>> THEN acc
  ELSE LET v == prodById[Head(items).product_id].vendor_id
       IN IF \E i \in 1..Len(acc) : acc[i] = v
          THEN VendorOrder(acc, Tail(items), prodById)
          ELSE VendorOrder(Append(acc, v), Tail(items), prodById)

\* itemsByVendor.get(v): the vendor's lines with the ledger price
RECURSIVE VendorItems(_, _, _)
VendorItems(v, items, prodById) ==
  IF items = <<>> THEN <<>>
  ELSE LET it == Head(items)
           p == prodById[it.product_id]
           rest == VendorItems(v, Tail(items), prodById)
       IN IF p.vendor_id = v
          THEN <<[product_id |-> it.product_id, quantity |-> it.quantity,
                  unit_price |-> p.price]>> \o rest
          ELSE rest

RECURSIVE LinesTotal(_)
LinesTotal(lines) ==
  IF lines = <<>> THEN 0
  ELSE Head(lines).unit_price * Head(lines).quantity + LinesTotal(Tail(lines))

\* a vendor total that forgets the quantities
RECURSIVE PricesTotal(_)
PricesTotal(lines) ==
  IF lines = <<>> THEN 0
  ELSE Head(lines).unit_price + PricesTotal(Tail(lines))

vendorTotalNoQty(v, items, prodById) ==
  PricesTotal(VendorItems(v, items, prodById))

vendorTotal(v, items, prodById) == LinesTotal(VendorItems(v, items, prodById))

RECURSIVE grandTotalFrom(_, _, _)
grandTotalFrom(vs, items, prodById) ==
  IF vs = <<>> THEN 0
  ELSE LinesTotal(VendorItems(Head(vs), items, prodById))
       + grandTotalFrom(Tail(vs), items, prodById)

grandTotal(items, prodById) ==
  grandTotalFrom(VendorOrder(<<>>, items, prodById), items, prodById)

\* all lines in the order the handler writes them
RECURSIVE AllLines(_, _, _)
AllLines(vs, items, prodById) ==
  IF vs = <<>> THEN <<>>
  ELSE VendorItems(Head(vs), items, prodById)
       \o AllLines(Tail(vs), items, prodById)

OrderRow(user, vendor, parent, total) ==
  [user_id |-> user, vendor_id |-> vendor, parent_order_id |-> parent,
   total_amount |-> total, status |-> "pending"]

\* rows inserted into orders: the master, then one child per vendor
NewOrders(user, masterId, items, prodById) ==
  LET vs == VendorOrder(<<>>, items, prodById)
  IN <<OrderRow(user, NULL, NULL, grandTotal(items, prodById))>>
     \o [k \in 1..Len(vs) |->
           OrderRow(user, vs[k], masterId, vendorTotal(vs[k], items, prodById))]

\* rows inserted into order_items; the k-th child has id masterId + k
RECURSIVE NewOrderItemsFrom(_, _, _, _)
NewOrderItemsFrom(vs, orderId, items, prodById) ==
  IF vs = <<>> THEN <<>>
  ELSE LET lines == VendorItems(Head(vs), items, prodById)
       IN [j \in 1..Len(lines) |->
             [order_id |-> orderId, product_id |-> lines[j].product_id,
              quantity |-> lines[j].quantity,
              unit_price |-> lines[j].unit_price]]
          \o NewOrderItemsFrom(Tail(vs), orderId + 1, items, prodById)

NewOrderItems(masterId, items, prodById) ==
  NewOrderItemsFrom(VendorOrder(<<>>, items, prodById), masterId + 1,
                    items, prodById)

\* decrement stock: newQty = p.quantity - vi.quantity on the row read under
\* the lock, written back as an absolute value, p.quantity = newQty
RECURSIVE DecrementStock(_, _, _)
DecrementStock(lines, prodById, prods) ==
  IF lines = <<>> THEN prods
  ELSE LET vi == Head(lines)
           newQty == prodById[vi.product_id].quantity - vi.quantity
       IN DecrementStock(Tail(lines),
            [prodById EXCEPT ![vi.product_id].quantity = newQty],
            [prods EXCEPT ![vi.product_id].quantity = newQty])

createdOrders(masterId, items, prodById) ==
  LET vs == VendorOrder(<<>>, items, prodById)
  IN [k \in 1..Len(vs) |->
        [order_id |-> masterId + k, vendor_id |-> vs[k],
         total |-> vendorTotal(vs[k], items, prodById)]]

----------------------------------------------------------------------------
(* POST /orders : handler steps *)

CheckoutRequests ==
  UNION {[1..n -> [product_id : RequestPids, quantity : RequestQtys]] :
           n \in ItemCounts}

\* the rows locked in the order in which the request lists them
productIdsAsListed(items, prods) ==
  SelectSeq([i \in 1..Len(items) |-> items[i].product_id],
            LAMBDA id : id \in DOMAIN prods)

\* WHERE id IN (productIds) FOR UPDATE: the rows that exist, locked as the
\* scan of the primary key meets them, in ascending id
productIds(items, prods) ==
  SortedSeq({items[i].product_id : i \in 1..Len(items)} \cap DOMAIN prods)

\* validation, aggregation, getConnection + beginTransaction
CheckoutBegin(p, user, itemsInput) ==
  /\ pc[p] = "idle"
  /\ nops < MaxCheckouts
  /\ nops' = nops + 1
  /\ IF ~CheckoutBodyValid(itemsInput)
     THEN /\ resp' = [resp EXCEPT ![p] =
                        [kind |-> "validation_failed", code |-> 400]]
          /\ SetTx(p, TxNone)
          /\ UNCHANGED <<pc, loc, want>>
     ELSE IF ItemsInvalid(itemsInput)
     THEN /\ resp' = [resp EXCEPT ![p] =
                        [kind |-> "invalid_items", code |-> 400]]
          /\ SetTx(p, TxNone)
          /\ UNCHANGED <<pc, loc, want>>
     ELSE LET items == itemsMap(itemsInput)
              ids == productIds(items, products)
          IN /\ loc' = [loc EXCEPT ![p] =
                          [op |-> "checkout", user |-> user, items |-> items,
                           prodById |-> << >>]]
             /\ want' = [want EXCEPT ![p] =
                           [k \in 1..Len(ids) |-> ProductKey(ids[k])]]
             /\ pc' = [pc EXCEPT ![p] =
                         IF ids = <<>> THEN "co_run" ELSE "co_lock"]
             /\ resp' = [resp EXCEPT ![p] = NoResp]
             /\ SetTx(p, TxOpen)
  /\ UNCHANGED <<dbvars, held, products0, cartvars, lastWh>>

\* SELECT ... FROM products WHERE id IN (?) FOR UPDATE, one row
CheckoutLock(p) ==
  /\ pc[p] = "co_lock"
  /\ want[p] # <<>>
  /\ LET id == Head(want[p])[2]
     IN /\ LockFree(ProductKey(id), p)
        /\ held' = [held EXCEPT ![p] = @ \cup {ProductKey(id)}]
        /\ loc' = [loc EXCEPT ![p].prodById = @ @@ (id :> products[id])]
  /\ want' = [want EXCEPT ![p] = Tail(@)]
  /\ pc' = [pc EXCEPT ![p] = IF Tail(want[p]) = <<>> THEN "co_run" ELSE @]
  /\ UNCHANGED <<dbvars, resp, products0, tx, cartvars, nops, lastWh>>

\* the rest of the handler: validate, group, insert, decrement, commit
\* (or rollback), release
CheckoutWrites(user, masterId, items, prodById) ==
  /\ orders' = orders \o NewOrders(user, masterId, items, prodById)
  /\ order_items' = order_items \o NewOrderItems(masterId, items, prodById)
  /\ products' = DecrementStock(
                   AllLines(VendorOrder(<<>>, items, prodById),
                            items, prodById),
                   prodById, products)

CheckoutRun(p) ==
  /\ pc[p] = "co_run"
  /\ LET items == loc[p].items
         prodById == loc[p].prodById
         v == ValidateItems(items, prodById)
         masterId == Len(orders) + 1
     IN IF v.kind # "ok"
        THEN /\ resp' = [resp EXCEPT ![p] = v]
             /\ SetTx(p, release(rollback(tx[p])))
             /\ UNCHANGED dbvars
        ELSE IF FirstOrphan(items, prodById) # NULL
        THEN /\ resp' = [resp EXCEPT ![p] =
                           [kind |-> "no_vendor", code |-> 400,
                            product_id |-> FirstOrphan(items, prodById)]]
             /\ SetTx(p, release(rollback(tx[p])))
             /\ UNCHANGED dbvars
        ELSE /\ CheckoutWrites(loc[p].user, masterId, items, prodById)
             /\ resp' = [resp EXCEPT ![p] =
                           [kind |-> "created", code |-> 201,
                            master_id |-> masterId,
                            child_orders |->
                              createdOrders(masterId, items, prodById)]]
             /\ SetTx(p, release(commit(tx[p])))
             /\ UNCHANGED payments
  /\ pc' = [pc EXCEPT ![p] = "idle"]
  /\ loc' = [loc EXCEPT ![p] = NoLoc]
  /\ held' = [held EXCEPT ![p] = {}]
  /\ UNCHANGED <<want, products0, cartvars, nops, lastWh>>

----------------------------------------------------------------------------
(* Checkout specification *)

InitProducts ==
  (1 :> [vendor_id |-> 1, price |-> 10, quantity |-> InitQty]) @@
  (2 :> [vendor_id |-> 2, price |-> 5, quantity |-> InitQty]) @@
  (3 :> [vendor_id |-> 1, price |-> 3, quantity |-> InitQty])

InitProcs ==
  /\ pc = [p \in Procs |-> "idle"]
  /\ loc = [p \in Procs |-> NoLoc]
  /\ want = [p \in Procs |-> <<>>]
  /\ held = [p \in Procs |-> {}]
  /\ resp = [p \in Procs |-> NoResp]
  /\ nops = 0
  /\ lastWh = [provider |-> ""]
  /\ tx = [p \in Procs |-> TxNone]

\* no cart yet
NoCarts == carts = <<>> /\ cart_items = <<>>

InitCheckout ==
  /\ NoCarts
  /\ products = InitProducts
  /\ products0 = InitProducts
  /\ orders = <<>>
  /\ order_items = <<>>
  /\ payments = <<>>
  /\ InitProcs

NextCheckout ==
  \E p \in Procs :
    \/ \E u \in CheckoutUsers, r \in CheckoutRequests : CheckoutBegin(p, u, r)
    \/ CheckoutLock(p)
    \/ CheckoutRun(p)

SpecCheckout == InitCheckout /\ [][NextCheckout]_vars

\* item lists over two products, where a list of two may repeat a product
MergeRequests ==
  UNION {[1..n -> [product_id : {1, 2}, quantity : {1, 2}]] :
           n \in ItemCounts}

NextCheckoutMerge ==
  \E p \in Procs :
    \/ \E u \in CheckoutUsers, itemsInput \in MergeRequests :
         CheckoutBegin(p, u, itemsInput)
    \/ CheckoutLock(p)
    \/ CheckoutRun(p)

SpecCheckoutMerge == InitCheckout /\ [][NextCheckoutMerge]_vars

\* product 3 lost its vendor (products.vendor_id is NULL)
OrphanProducts == [InitProducts EXCEPT ![3].vendor_id = NULL]

InitOrphan ==
  /\ NoCarts
  /\ products = OrphanProducts
  /\ products0 = OrphanProducts
  /\ orders = <<>>
  /\ order_items = <<>>
  /\ payments = <<>>
  /\ InitProcs

\* item lists over a product with a vendor, the product without one and
\* an id of no product, each line in stock or one above the initial stock
OrphanRequests ==
  UNION {[1..n -> [product_id : {1, 3, 4}, quantity : {1, InitQty + 1}]] :
           n \in ItemCounts}

NextCheckoutOrphan ==
  \E p \in Procs :
    \/ \E u \in CheckoutUsers, itemsInput \in OrphanRequests :
         CheckoutBegin(p, u, itemsInput)
    \/ CheckoutLock(p)
    \/ CheckoutRun(p)

SpecCheckoutOrphan == InitOrphan /\ [][NextCheckoutOrphan]_vars

\* item lists over two products and an id of no product, with quantity 0
\* or a quantity in stock
InvalidRequests ==
  UNION {[1..n -> [product_id : {1, 2, 4}, quantity : {0, 1}]] :
           n \in ItemCounts}

NextCheckoutInvalid ==
  \E p \in Procs :
    \/ \E u \in CheckoutUsers, itemsInput \in InvalidRequests :
         CheckoutBegin(p, u, itemsInput)
    \/ CheckoutLock(p)
    \/ CheckoutRun(p)

SpecCheckoutInvalid == InitCheckout /\ [][NextCheckoutInvalid]_vars

\* every transaction that was begun gets its next statement executed: a
\* lock that stays free is granted, and the handler runs on to its commit
\* or rollback
FairCheckout ==
  \A p \in Procs : WF_vars(CheckoutLock(p)) /\ WF_vars(CheckoutRun(p))

SpecCheckoutFair == InitCheckout /\ [][NextCheckoutMerge]_vars /\ FairCheckout

----------------------------------------------------------------------------
(* Payments : pure parts *)

\* SQL NULL in a text column
NullText == "<null>"
\* a body field that was not sent, or sent empty
NoText == ""

\* provider_payment_id || null
PpidOrNull(x) == IF x = NoText THEN NullText ELSE x

\* the amount as the body has it
payAmountAsSent(amount, total) == amount

\* amount || order.total_amount (an amount not sent, or 0, is falsy)
payAmount(amount, total) == IF amount = 0 THEN total ELSE amount

\* String(status).toLowerCase()
normalized(status) ==
  CASE status = "PAID" -> "paid"
    [] status = "FAILED" -> "failed"
    [] status = "REFUNDED" -> "refunded"
    [] OTHER -> status

\* a mapping that passes every other status on to the order
MappedStatusRaw(n) ==
  CASE n = "paid" -> "paid"
    [] n = "failed" -> "payment_failed"
    [] OTHER -> n

\* the order status written for a normalized webhook status, NoText if none
MappedStatus(n) ==
  CASE n = "paid" -> "paid"
    [] n = "failed" -> "payment_failed"
    [] n = "refunded" -> "refunded"
    [] OTHER -> NoText

\* if (normalized === "paid") UPDATE orders ... else if "failed" ... else if
\* "refunded" ...
SetOrderStatus(tbl, id, n) ==
  IF MappedStatus(n) = NoText THEN tbl
  ELSE [tbl EXCEPT ![id].status = MappedStatus(n)]

RECURSIVE SetChildrenStatus(_, _, _)
SetChildrenStatus(tbl, childRows, n) ==
  IF childRows = <<>> THEN tbl
  ELSE SetChildrenStatus(SetOrderStatus(tbl, Head(childRows).id, n),
                         Tail(childRows), n)

PaymentRow(orderId, provider, ppid, amount, status, linked) ==
  [order_id |-> orderId, provider |-> provider, provider_payment_id |-> ppid,
   amount |-> amount, status |-> status, linked_payment_id |-> linked]

\* child payments that are not linked to the master payment
ChildPaymentsUnlinked(childRows, provider, ppid, status, masterPaymentId) ==
  [k \in 1..Len(childRows) |->
     PaymentRow(childRows[k].id, provider, PpidOrNull(ppid),
                childRows[k].total_amount, status, NULL)]

\* child payments linked to the row after the master payment
ChildPaymentsOffByOne(childRows, provider, ppid, status, masterPaymentId) ==
  [k \in 1..Len(childRows) |->
     PaymentRow(childRows[k].id, provider, PpidOrNull(ppid),
                childRows[k].total_amount, status, masterPaymentId + 1)]

\* one linked payment per child row, the child's own amount
ChildPayments(childRows, provider, ppid, status, masterPaymentId) ==
  [k \in 1..Len(childRows) |->
     PaymentRow(childRows[k].id, provider, PpidOrNull(ppid),
                childRows[k].total_amount, status, masterPaymentId)]

\* SELECT id, total_amount FROM orders WHERE parent_order_id = ?
ChildIds(tbl, m) == {k \in 1..Len(tbl) : tbl[k].parent_order_id = m}

\* a lookup by provider alone
MatchingPaymentsByProvider(tbl, provider, ppid) ==
  {i \in 1..Len(tbl) : tbl[i].provider = provider}

\* WHERE provider = ? AND provider_payment_id = ? (NULL never compares equal)
MatchingPayments(tbl, provider, ppid) ==
  {i \in 1..Len(tbl) :
     /\ tbl[i].provider = provider
     /\ tbl[i].provider_payment_id # NullText
     /\ tbl[i].provider_payment_id = ppid}

\* the duplicate check always finding nothing
linkedCntNone(tbl, id) ==
  Cardinality({i \in 1..Len(tbl) : FALSE})

\* SELECT COUNT(*) FROM payments WHERE linked_payment_id = ?
linkedCnt(tbl, id) ==
  Cardinality({i \in 1..Len(tbl) : tbl[i].linked_payment_id = id})

\* direct pay, master branch: the committed tables
PayMasterTables(pays, ords, l) ==
  LET masterPaymentId == Len(pays) + 1
      amt == payAmount(l.amount, l.order.total_amount)
  IN [payments |->
        pays \o <<PaymentRow(l.orderId, l.provider,
                             PpidOrNull(l.provider_payment_id), amt, "paid",
                             NULL)>>
             \o ChildPayments(l.childRows, l.provider, l.provider_payment_id,
                              "paid", masterPaymentId),
      orders |->
        SetChildrenStatus([ords EXCEPT ![l.orderId].status = "paid"],
                          l.childRows, "paid")]

\* a child's payment that settles the master order with it
PayChildTablesWithMaster(pays, ords, l) ==
  [payments |->
     pays \o <<PaymentRow(l.orderId, l.provider,
                          PpidOrNull(l.provider_payment_id),
                          payAmount(l.amount, l.order.total_amount), "paid",
                          NULL)>>,
   orders |-> [ords EXCEPT ![l.orderId].status = "paid",
                           ![l.order.parent_order_id].status = "paid"]]

\* direct pay, child branch: the committed tables
PayChildTables(pays, ords, l) ==
  [payments |->
     pays \o <<PaymentRow(l.orderId, l.provider,
                          PpidOrNull(l.provider_payment_id),
                          payAmount(l.amount, l.order.total_amount), "paid",
                          NULL)>>,
   orders |-> [ords EXCEPT ![l.orderId].status = "paid"]]

\* webhook, payment found, owned by a master order: the committed tables
WebhookExistingMasterTables(pays, ords, l) ==
  LET n == l.normalized
      id == l.payment
      pays1 == [pays EXCEPT ![id].status = n]
      cnt == linkedCnt(pays1, id)
      ords1 == SetOrderStatus(ords, l.order.id, n)
  IN IF cnt = 0 /\ Len(l.childRows) > 0
     THEN [payments |->
             pays1 \o ChildPayments(l.childRows, l.provider,
                                    l.provider_payment_id, n, id),
           orders |-> SetChildrenStatus(ords1, l.childRows, n)]
     ELSE [payments |-> pays1, orders |-> ords1]

\* webhook, payment found, owned by a child order
WebhookExistingChildTables(pays, ords, l) ==
  [payments |-> [pays EXCEPT ![l.payment].status = l.normalized],
   orders |-> SetOrderStatus(ords, l.order.id, l.normalized)]

\* webhook, no payment found, order_id of a master order
WebhookCreateMasterTables(pays, ords, l) ==
  LET n == l.normalized
      newPaymentId == Len(pays) + 1
  IN [payments |->
        pays \o <<PaymentRow(l.order_id, l.provider,
                             PpidOrNull(l.provider_payment_id),
                             l.order.total_amount, n, NULL)>>
             \o ChildPayments(l.childRows, l.provider, l.provider_payment_id,
                              n, newPaymentId),
      orders |->
        SetChildrenStatus(SetOrderStatus(ords, l.order_id, n), l.childRows, n)]

\* webhook, no payment found, order_id of a child order
WebhookCreateChildTables(pays, ords, l) ==
  [payments |->
     pays \o <<PaymentRow(l.order_id, l.provider,
                          PpidOrNull(l.provider_payment_id),
                          l.order.total_amount, l.normalized, NULL)>>,
   orders |-> SetOrderStatus(ords, l.order_id, l.normalized)]

----------------------------------------------------------------------------
(* Handler steps shared by the payment routes *)

NoWebhook == [provider |-> NoText]

\* commit or rollback, release the connection, send the response
Return(p, r) ==
  /\ pc' = [pc EXCEPT ![p] = "idle"]
  /\ loc' = [loc EXCEPT ![p] = NoLoc]
  /\ want' = [want EXCEPT ![p] = <<>>]
  /\ held' = [held EXCEPT ![p] = {}]
  /\ resp' = [resp EXCEPT ![p] = r]

OrderRead(id) ==
  [id |-> id, user_id |-> orders[id].user_id,
   total_amount |-> orders[id].total_amount, status |-> orders[id].status,
   parent_order_id |-> orders[id].parent_order_id]

\* SELECT id, total_amount FROM orders WHERE parent_order_id = ? FOR UPDATE,
\* one row
LockChild(p, at, next) ==
  /\ pc[p] = at
  /\ want[p] # <<>>
  /\ LET k == Head(want[p])
     IN /\ LockFree(k, p)
        /\ held' = [held EXCEPT ![p] = @ \cup {k}]
        /\ loc' = [loc EXCEPT ![p].childRows =
                     Append(@, [id |-> k[2],
                                total_amount |-> orders[k[2]].total_amount])]
  /\ want' = [want EXCEPT ![p] = Tail(@)]
  /\ pc' = [pc EXCEPT ![p] = IF Tail(want[p]) = <<>> THEN next ELSE @]
  /\ UNCHANGED <<dbvars, resp, products0, tx, cartvars, nops, lastWh>>

ChildKeys(m) == [i \in 1..Cardinality(ChildIds(orders, m)) |->
                   OrderKey(SortedSeq(ChildIds(orders, m))[i])]

----------------------------------------------------------------------------
(* POST /orders/:id/pay *)

PayOrderIds == {1, 2, 3, 4}
PayProviders == {"manual", NoText}
PayPpids == {NoText, "X"}
PayAmounts == {0, 7}

\* express-validator chain of the route
PayBodyValid(orderId, provider, amount) ==
  orderId >= 1 /\ provider # NoText /\ amount >= 0

\* validation, beginTransaction, lock the requested order, ownership and
\* already-paid checks
PayBegin(p, user, orderId, provider, ppid, amount) ==
  /\ pc[p] = "idle"
  /\ nops < MaxPayOps
  /\ nops' = nops + 1
  /\ lastWh' = NoWebhook
  /\ IF ~PayBodyValid(orderId, provider, amount)
     THEN /\ resp' = [resp EXCEPT ![p] =
                        [kind |-> "validation_failed", code |-> 400]]
          /\ SetTx(p, TxNone)
          /\ UNCHANGED <<pc, loc, want, held>>
     ELSE IF orderId \notin DOMAIN orders
     THEN /\ resp' = [resp EXCEPT ![p] =
                        [kind |-> "no_data", code |-> 200,
                         order_id |-> orderId]]
          /\ SetTx(p, release(rollback(TxOpen)))
          /\ UNCHANGED <<pc, loc, want, held>>
     ELSE /\ LockFree(OrderKey(orderId), p)
          /\ LET order == OrderRead(orderId)
             IN IF order.user_id # user
                THEN /\ resp' = [resp EXCEPT ![p] =
                                   [kind |-> "forbidden", code |-> 403,
                                    order_id |-> orderId]]
                     /\ SetTx(p, release(rollback(TxOpen)))
                     /\ UNCHANGED <<pc, loc, want, held>>
                ELSE IF order.status = "paid"
                THEN /\ resp' = [resp EXCEPT ![p] =
                                   [kind |-> "already_paid", code |-> 400,
                                    order_id |-> orderId]]
                     /\ SetTx(p, release(rollback(TxOpen)))
                     /\ UNCHANGED <<pc, loc, want, held>>
                ELSE /\ held' = [held EXCEPT ![p] = {OrderKey(orderId)}]
                     /\ loc' = [loc EXCEPT ![p] =
                                  [op |-> "pay", orderId |-> orderId,
                                   provider |-> provider,
                                   provider_payment_id |-> ppid,
                                   amount |-> amount, order |-> order,
                                   childRows |-> <<>>]]
                     /\ want' = [want EXCEPT ![p] =
                                   IF order.parent_order_id = NULL
                                   THEN ChildKeys(orderId) ELSE <<>>]
                     /\ pc' = [pc EXCEPT ![p] =
                                 IF order.parent_order_id = NULL
                                    /\ ChildKeys(orderId) # <<>>
                                 THEN "pay_lock_children" ELSE "pay_run"]
                     /\ resp' = [resp EXCEPT ![p] = NoResp]
                     /\ SetTx(p, TxOpen)
  /\ UNCHANGED <<dbvars, products0, cartvars>>

\* master branch: fetch child orders (lock them)
PayLockChildren(p) == LockChild(p, "pay_lock_children", "pay_run")

\* insert the payment, mark it and the order paid; for a master also the
\* linked child payments and the child orders; commit
PayRun(p) ==
  /\ pc[p] = "pay_run"
  /\ LET l == loc[p]
         t == IF l.order.parent_order_id = NULL
              THEN PayMasterTables(payments, orders, l)
              ELSE PayChildTables(payments, orders, l)
     IN /\ payments' = t.payments
        /\ orders' = t.orders
        /\ Return(p, IF l.order.parent_order_id = NULL
                     THEN [kind |-> "master_payment_recorded", code |-> 200,
                           master_payment_id |-> Len(payments) + 1,
                           master_order_id |-> l.orderId,
                           children_count |-> Len(l.childRows)]
                     ELSE [kind |-> "payment_recorded", code |-> 201,
                           payment_id |-> Len(payments) + 1,
                           order_id |-> l.orderId])
        /\ SetTx(p, release(commit(tx[p])))
  /\ UNCHANGED <<products, order_items, products0, cartvars, nops, lastWh>>

----------------------------------------------------------------------------
(* POST /payments/webhook *)

WebhookProviders == {"manual"}
WebhookPpids == {"X", NoText}
WebhookStatuses == {"paid", "failed", "refunded", "PAID", "disputed"}
\* NULL: no order_id in the body
WebhookOrderIds == {NULL, 1, 2, 4}

WebhookBodyValid(provider, ppid, status) ==
  provider # NoText /\ ppid # NoText /\ status # NoText

Payload(l) ==
  [provider |-> l.provider, provider_payment_id |-> l.provider_payment_id,
   status |-> l.status, order_id |-> l.order_id]

\* what a finished delivery leaves for the next one to be a replay of
Delivered(p, payload) ==
  IF \A q \in Procs \ {p} : pc[q] = "idle" THEN payload ELSE NoWebhook

\* validation, beginTransaction, 1) find the payment by provider +
\* provider_payment_id (LIMIT 1 without ORDER BY: any matching row) and lock
\* it; 2) else take the order_id of the body; else nothing to do
WebhookBegin(p, provider, ppid, status, order_id) ==
  /\ pc[p] = "idle"
  /\ LET payload == [provider |-> provider, provider_payment_id |-> ppid,
                     status |-> status, order_id |-> order_id]
         replay == (\A q \in Procs : pc[q] = "idle") /\ lastWh = payload
         l == [op |-> "webhook", provider |-> provider,
               provider_payment_id |-> ppid, status |-> status,
               normalized |-> normalized(status), order_id |-> order_id,
               payment |-> NULL, order |-> NoLoc, childRows |-> <<>>,
               replay |-> replay]
         found == MatchingPayments(payments, provider, ppid)
     IN /\ nops < MaxPayOps
        /\ nops' = nops + 1
        /\ IF ~WebhookBodyValid(provider, ppid, status)
           THEN /\ resp' = [resp EXCEPT ![p] =
                              [kind |-> "validation_failed", code |-> 400]]
                /\ SetTx(p, TxNone)
                /\ lastWh' = NoWebhook
                /\ UNCHANGED <<pc, loc, want, held>>
           ELSE IF found # {}
           THEN \E m \in found :
                  /\ LockFree(PaymentKey(m), p)
                  /\ held' = [held EXCEPT ![p] = {PaymentKey(m)}]
                  /\ loc' = [loc EXCEPT ![p] = [l EXCEPT !.payment = m]]
                  /\ want' = [want EXCEPT ![p] =
                                <<OrderKey(payments[m].order_id)>>]
                  /\ pc' = [pc EXCEPT ![p] = "wh_lock_order"]
                  /\ resp' = [resp EXCEPT ![p] = NoResp]
                  /\ lastWh' = IF replay THEN lastWh ELSE NoWebhook
                  /\ SetTx(p, TxOpen)
           ELSE IF order_id # NULL /\ order_id \in DOMAIN orders
           THEN /\ loc' = [loc EXCEPT ![p] = l]
                /\ want' = [want EXCEPT ![p] = <<OrderKey(order_id)>>]
                /\ pc' = [pc EXCEPT ![p] = "wh_lock_order"]
                /\ resp' = [resp EXCEPT ![p] = NoResp]
                /\ lastWh' = IF replay THEN lastWh ELSE NoWebhook
                /\ SetTx(p, TxOpen)
                /\ UNCHANGED held
           ELSE /\ resp' = [resp EXCEPT ![p] =
                              [kind |-> "no_data", code |-> 200,
                               message |-> IF order_id # NULL
                                           THEN "Order not found"
                                           ELSE "Payment record not found"]]
                /\ lastWh' = Delivered(p, payload)
                /\ SetTx(p, release(rollback(TxOpen)))
                /\ UNCHANGED <<pc, loc, want, held>>
  /\ UNCHANGED <<dbvars, products0, cartvars>>

\* fetch the order of the payment, or lock the order row of the body
WebhookLockOrder(p) ==
  /\ pc[p] = "wh_lock_order"
  /\ LET k == Head(want[p])
         order == OrderRead(k[2])
     IN /\ LockFree(k, p)
        /\ held' = [held EXCEPT ![p] = @ \cup {k}]
        /\ loc' = [loc EXCEPT ![p].order = order]
        /\ want' = [want EXCEPT ![p] =
                      IF order.parent_order_id = NULL
                      THEN ChildKeys(order.id) ELSE <<>>]
        /\ pc' = [pc EXCEPT ![p] =
                    IF order.parent_order_id = NULL
                       /\ ChildKeys(order.id) # <<>>
                    THEN "wh_lock_children" ELSE "wh_run"]
  /\ UNCHANGED <<dbvars, resp, products0, tx, cartvars, nops, lastWh>>

\* master order: fetch child orders (lock them)
WebhookLockChildren(p) == LockChild(p, "wh_lock_children", "wh_run")

\* payment status, order status, linked child payments and child order
\* statuses of a master; commit
WebhookRun(p) ==
  /\ pc[p] = "wh_run"
  /\ LET l == loc[p]
         t == IF l.payment # NULL
              THEN IF l.order.parent_order_id = NULL
                   THEN WebhookExistingMasterTables(payments, orders, l)
                   ELSE WebhookExistingChildTables(payments, orders, l)
              ELSE IF l.order.parent_order_id = NULL
                   THEN WebhookCreateMasterTables(payments, orders, l)
                   ELSE WebhookCreateChildTables(payments, orders, l)
     IN /\ payments' = t.payments
        /\ orders' = t.orders
        /\ Return(p, IF l.payment # NULL
                     THEN [kind |-> "updated", code |-> 200,
                           payment_id |-> l.payment, status |-> l.normalized]
                     ELSE [kind |-> "created", code |-> 200,
                           payment_id |-> Len(payments) + 1,
                           status |-> l.normalized])
        /\ lastWh' = Delivered(p, Payload(l))
        /\ SetTx(p, release(commit(tx[p])))
  /\ UNCHANGED <<products, order_items, products0, cartvars, nops>>

----------------------------------------------------------------------------
(* Payment specifications: the tables hold one committed checkout *)

\* scenario A: 1 @ 10 of vendor 1 and 2 @ 5 of vendor 2, bought by user 1
PaidItems == <<[product_id |-> 1, quantity |-> 1],
               [product_id |-> 2, quantity |-> 2]>>

\* the tables after that checkout committed
CheckedOut ==
  [products |-> DecrementStock(
                  AllLines(VendorOrder(<<>>, PaidItems, InitProducts),
                           PaidItems, InitProducts),
                  InitProducts, InitProducts),
   orders |-> NewOrders(1, 1, PaidItems, InitProducts),
   order_items |-> NewOrderItems(1, PaidItems, InitProducts),
   payments |-> <<>>]

\* and after user 1 settled the master order by direct pay, provider
\* "manual", provider_payment_id "X", no amount
Settled ==
  LET o == CheckedOut.orders
      t == PayMasterTables(<<>>, o,
             [orderId |-> 1, provider |-> "manual",
              provider_payment_id |-> "X", amount |-> 0,
              order |-> [id |-> 1, user_id |-> o[1].user_id,
                         total_amount |-> o[1].total_amount,
                         status |-> o[1].status,
                         parent_order_id |-> o[1].parent_order_id],
              childRows |-> [i \in 1..2 |->
                               [id |-> i + 1,
                                total_amount |-> o[i + 1].total_amount]]])
  IN [CheckedOut EXCEPT !.orders = t.orders, !.payments = t.payments]

InitTables(t) ==
  /\ NoCarts
  /\ products0 = InitProducts
  /\ products = t.products
  /\ orders = t.orders
  /\ order_items = t.order_items
  /\ payments = t.payments
  /\ InitProcs

\* direct pay starts from the committed checkout
InitDirectPay == InitTables(CheckedOut)

\* webhooks arrive before or after the direct pay of the master
InitPay == \E t \in {CheckedOut, Settled} : InitTables(t)

NextDirectPay ==
  \E p \in Procs :
    \/ \E u \in Users, o \in PayOrderIds, pr \in PayProviders,
          pp \in PayPpids, a \in PayAmounts : PayBegin(p, u, o, pr, pp, a)
    \/ PayLockChildren(p)
    \/ PayRun(p)

NextWebhook ==
  \E p \in Procs :
    \/ \E pr \in WebhookProviders, pp \in WebhookPpids,
          st \in WebhookStatuses, o \in WebhookOrderIds :
         WebhookBegin(p, pr, pp, st, o)
    \/ WebhookLockOrder(p)
    \/ WebhookLockChildren(p)
    \/ WebhookRun(p)

NextPay == NextDirectPay \/ NextWebhook

\* webhook statuses of a provider that also reports pending payments
CreateStatuses == {"paid", "PAID", "pending", "failed"}

\* webhook deliveries alone, on the committed checkout
NextWebhookCreate ==
  \E p \in Procs :
    \/ \E pr \in WebhookProviders, pp \in WebhookPpids,
          st \in CreateStatuses, o \in WebhookOrderIds :
         WebhookBegin(p, pr, pp, st, o)
    \/ WebhookLockOrder(p)
    \/ WebhookLockChildren(p)
    \/ WebhookRun(p)

SpecWebhookCreate == InitDirectPay /\ [][NextWebhookCreate]_vars

\* direct pay only
SpecDirectPay == InitDirectPay /\ [][NextDirectPay]_vars

\* direct pay and webhook deliveries
SpecPay == InitPay /\ [][NextPay]_vars

----------------------------------------------------------------------------
(* POST /payments/webhook behind its secret header *)

\* process.env.PAYMENT_WEBHOOK_SECRET || null: unset or empty, or set
WebhookSecrets == {NoText, "s1"}

\* req.get("x-payment-webhook-secret"): absent or empty, or some text
WebhookHeaders == {NoText, "s1", "s2"}

\* a header that is absent passes
UnauthorizedIfPresent(secret, header) ==
  secret # NoText /\ header # NoText /\ header # secret

\* if (webhookSecret) { if (!headerSecret || headerSecret !== webhookSecret)
UnauthorizedWebhook(secret, header) ==
  secret # NoText /\ (header = NoText \/ header # secret)

\* the handler from its first line: validators, secret check, then the
\* transaction
WebhookReceive(p, secret, header, provider, ppid, status, order_id) ==
  IF WebhookBodyValid(provider, ppid, status)
     /\ UnauthorizedWebhook(secret, header)
  THEN /\ pc[p] = "idle"
       /\ nops < MaxPayOps
       /\ nops' = nops + 1
       /\ resp' = [resp EXCEPT ![p] = [kind |-> "unauthorized", code |-> 401]]
       /\ lastWh' = NoWebhook
       /\ SetTx(p, TxNone)
       /\ UNCHANGED <<dbvars, cartvars, pc, loc, want, held, products0>>
  ELSE WebhookBegin(p, provider, ppid, status, order_id)

\* deliveries for the master order 1, the child order 2, or no order
SecretStatuses == {"paid", "failed"}

SecretOrderIds == {NULL, 1, 2}

NextWebhookSecret ==
  \E p \in Procs :
    \/ \E s \in WebhookSecrets, h \in WebhookHeaders,
          pr \in WebhookProviders, pp \in WebhookPpids,
          st \in SecretStatuses, o \in SecretOrderIds :
         WebhookReceive(p, s, h, pr, pp, st, o)
    \/ WebhookLockOrder(p)
    \/ WebhookLockChildren(p)
    \/ WebhookRun(p)

SpecWebhookSecret == InitDirectPay /\ [][NextWebhookSecret]_vars

----------------------------------------------------------------------------
(* GET /payments/master/:paymentId/allocations *)

\* a money value m of the tables is m hundredths (DECIMAL(12,2)); as a
\* number of the handler it is counted in thousandths
Num(amount) == amount * 10

\* Number(x.toFixed(2)): x in thousandths rounded to hundredths
toFixed2(x) == (x + 5) \div 10

\* SELECT ... FROM payments WHERE linked_payment_id = ? ORDER BY id ASC
allocationRows(tbl, id) ==
  SortedSeq({i \in 1..Len(tbl) : tbl[i].linked_payment_id = id})

\* the amount of the first row only
allocatedTotalFirst(tbl, rows) ==
  IF rows = <<>> THEN 0 ELSE Num(tbl[Head(rows)].amount)

\* childRows.reduce((s, c) => s + Number(c.amount || 0), 0)
RECURSIVE allocatedTotal(_, _)
allocatedTotal(tbl, rows) ==
  IF rows = <<>> THEN 0
  ELSE Num(tbl[Head(rows)].amount) + allocatedTotal(tbl, Tail(rows))

\* const summary = { children_count, master_amount, allocated_total,
\* allocation_match }
AllocationSummary(master, tbl, id) ==
  LET childRows == allocationRows(tbl, id)
      total == allocatedTotal(tbl, childRows)
      masterAmount == Num(master.amount)
  IN [kind |-> "allocations", code |-> 200, payment_id |-> id,
      children_count |-> Len(childRows),
      master_amount |-> master.amount,
      allocated_total |-> toFixed2(total),
      allocation_match |-> (toFixed2(masterAmount) = toFixed2(total))]

AuditIds == {0, 1, 2, 4, 9}

\* requireAuth, requireRole("admin"), param("paymentId").isInt({ min: 1 }),
\* SELECT ... FROM payments WHERE id = ? LIMIT 1 (plain read on the pool)
AllocationsBegin(p, admin, id) ==
  /\ pc[p] = "idle"
  /\ nops < MaxPayOps
  /\ nops' = nops + 1
  /\ IF ~admin
     THEN /\ resp' = [resp EXCEPT ![p] = [kind |-> "forbidden", code |-> 403]]
          /\ UNCHANGED <<pc, loc>>
     ELSE IF id < 1
     THEN /\ resp' = [resp EXCEPT ![p] =
                        [kind |-> "invalid_payment_id", code |-> 400]]
          /\ UNCHANGED <<pc, loc>>
     ELSE IF id \notin 1..Len(payments)
     THEN /\ resp' = [resp EXCEPT ![p] =
                        [kind |-> "no_data", code |-> 200,
                         message |-> "Payment not found"]]
          /\ UNCHANGED <<pc, loc>>
     ELSE /\ loc' = [loc EXCEPT ![p] =
                       [op |-> "allocations", id |-> id,
                        master |-> payments[id]]]
          /\ pc' = [pc EXCEPT ![p] = "al_children"]
          /\ resp' = [resp EXCEPT ![p] = NoResp]
  /\ SetTx(p, TxNone)
  /\ UNCHANGED <<dbvars, cartvars, want, held, products0, lastWh>>

\* the second plain read, the summary and the response
AllocationsRun(p) ==
  /\ pc[p] = "al_children"
  /\ Return(p, AllocationSummary(loc[p].master, payments, loc[p].id))
  /\ UNCHANGED <<dbvars, cartvars, products0, tx, nops, lastWh>>

\* the audit next to direct pay, before or after the master was settled
NextAudit ==
  \/ NextDirectPay
  \/ \E p \in Procs :
       \/ \E admin \in BOOLEAN, id \in AuditIds : AllocationsBegin(p, admin, id)
       \/ AllocationsRun(p)

SpecAudit == InitPay /\ [][NextAudit]_vars

\* the tables after a POST /orders of user 1 with these items committed
CheckedOutWith(items) ==
  [products |-> DecrementStock(
                  AllLines(VendorOrder(<<>>, items, InitProducts),
                           items, InitProducts),
                  InitProducts, InitProducts),
   orders |-> NewOrders(1, 1, items, InitProducts),
   order_items |-> NewOrderItems(1, items, InitProducts),
   payments |-> <<>>]

\* two vendors; two products of one vendor; one product
AllocationItems ==
  {PaidItems,
   <<[product_id |-> 1, quantity |-> 1], [product_id |-> 3, quantity |-> 2]>>,
   <<[product_id |-> 2, quantity |-> 1]>>}

InitAllocation == \E items \in AllocationItems : InitTables(CheckedOutWith(items))

\* direct pay and the audit on one committed checkout
SpecAllocation == InitAllocation /\ [][NextAudit]_vars

----------------------------------------------------------------------------
(* PUT /vendor/products/:id *)

\* a body field that was not sent
Absent == -1

VendorIds == {1, 2}
VendorProductIds == {1, 2, 4}
VendorPrices == {Absent, 7}
VendorQtys == {Absent, 5}

\* validation, SELECT id, vendor_id (plain read), ownership, field list
VendorUpdateBegin(p, vendor, id, price, quantity) ==
  /\ pc[p] = "idle"
  /\ nops < MaxCheckouts
  /\ nops' = nops + 1
  /\ IF id \notin DOMAIN products
     THEN /\ resp' = [resp EXCEPT ![p] =
                        [kind |-> "no_data", code |-> 200, product_id |-> id]]
          /\ UNCHANGED <<pc, loc>>
     ELSE IF products[id].vendor_id # vendor
     THEN /\ resp' = [resp EXCEPT ![p] =
                        [kind |-> "forbidden", code |-> 403]]
          /\ UNCHANGED <<pc, loc>>
     ELSE IF price = Absent /\ quantity = Absent
     THEN /\ resp' = [resp EXCEPT ![p] =
                        [kind |-> "no_fields", code |-> 400]]
          /\ UNCHANGED <<pc, loc>>
     ELSE /\ loc' = [loc EXCEPT ![p] =
                       [op |-> "vendor_update", id |-> id, price |-> price,
                        quantity |-> quantity]]
          /\ pc' = [pc EXCEPT ![p] = "vu_update"]
          /\ resp' = [resp EXCEPT ![p] = NoResp]
  /\ SetTx(p, TxNone)
  /\ UNCHANGED <<dbvars, want, held, products0, cartvars, lastWh>>

\* UPDATE products SET ... WHERE id = ? on the pool, autocommit: the
\* statement waits for the row lock and writes the values of the body
VendorUpdateRun(p) ==
  /\ pc[p] = "vu_update"
  /\ LockFree(ProductKey(loc[p].id), p)
  /\ products' =
       [products EXCEPT ![loc[p].id] =
          [@ EXCEPT !.price = IF loc[p].price = Absent
                              THEN @ ELSE loc[p].price,
                    !.quantity = IF loc[p].quantity = Absent
                                 THEN @ ELSE loc[p].quantity]]
  /\ Return(p, [kind |-> "product_updated", code |-> 200])
  /\ UNCHANGED <<orders, order_items, payments, products0, tx, cartvars, nops, lastWh>>

----------------------------------------------------------------------------
(* PUT /admin/orders/:id/status *)

AdminOrderIds == {1, 2, 4}
AdminStatuses == {"shipped", "pending", NoText}

\* if (!status) 400; UPDATE orders SET status = ? WHERE id = ? on the pool,
\* autocommit: no check of the current status, any text is written; the
\* statement waits for the row lock; an id of no order updates nothing
AdminSetStatus(p, id, status) ==
  /\ pc[p] = "idle"
  /\ nops < MaxPayOps
  /\ nops' = nops + 1
  /\ IF status = NoText
     THEN /\ resp' = [resp EXCEPT ![p] =
                        [kind |-> "status_required", code |-> 400]]
          /\ UNCHANGED orders
     ELSE /\ resp' = [resp EXCEPT ![p] = [kind |-> "ok", code |-> 200]]
          /\ IF id \in DOMAIN orders
             THEN /\ LockFree(OrderKey(id), p)
                  /\ orders' = [orders EXCEPT ![id].status = status]
             ELSE UNCHANGED orders
  /\ lastWh' = NoWebhook
  /\ SetTx(p, TxNone)
  /\ UNCHANGED <<products, order_items, payments, pc, loc, want, held,
                 products0, cartvars>>

\* direct pay next to the admin's status update and the vendors' product
\* updates
NextBackOffice ==
  \/ NextDirectPay
  \/ \E p \in Procs :
       \/ \E id \in AdminOrderIds, st \in AdminStatuses :
            AdminSetStatus(p, id, st)
       \/ \E v \in VendorIds, id \in VendorProductIds, pr \in VendorPrices,
             q \in VendorQtys : VendorUpdateBegin(p, v, id, pr, q)
       \/ VendorUpdateRun(p)

SpecBackOffice == InitDirectPay /\ [][NextBackOffice]_vars

\* item lists whose items also carry a price, which the route does not read
BodyPrices == {1, 99}
PricedRequests ==
  UNION {[1..n -> [product_id : {1, 2}, quantity : {1}, price : BodyPrices]] :
           n \in ItemCounts}

\* checkouts while vendors change price and stock of their products
NextCheckoutPrice ==
  \E p \in Procs :
    \/ \E u \in CheckoutUsers, itemsInput \in PricedRequests :
         CheckoutBegin(p, u, itemsInput)
    \/ CheckoutLock(p)
    \/ CheckoutRun(p)
    \/ \E v \in VendorIds, id \in VendorProductIds, pr \in VendorPrices,
          q \in VendorQtys : VendorUpdateBegin(p, v, id, pr, q)
    \/ VendorUpdateRun(p)

SpecCheckoutPrice == InitCheckout /\ [][NextCheckoutPrice]_vars

----------------------------------------------------------------------------
(* Cart routes: POST /cart, PUT and DELETE /cart/items/:itemId,
   POST /cart/merge. Every statement runs on the pool; here each handler
   runs from its first statement to its response with no other cart
   request in between. A deleted row keeps its id with live = FALSE. *)

MaxCartOps == 3

\* X-Cart-Token / cart_token; NoText: not sent
CartTokens == {"t1", NoText}
CartProductIds == {1, 2, 4}
CartQtys == {Absent, 0, 1, 2}
CartItemIds == {1, 3, 4}

\* INSERT INTO carts (token | user_id, created_at, updated_at)
CartRow(token, user) ==
  [token |-> token, user_id |-> user, item_count |-> 0, total_amount |-> 0,
   live |-> TRUE]

\* SUM counted as the number of rows
RECURSIVE SumQuantityRows(_, _)
SumQuantityRows(items, cid) ==
  IF items = <<>> THEN 0
  ELSE (IF Head(items).live /\ Head(items).cart_id = cid THEN 1 ELSE 0)
       + SumQuantityRows(Tail(items), cid)

\* SUM(quantity) ... WHERE cart_id = ?, ?? 0
RECURSIVE SumQuantity(_, _)
SumQuantity(items, cid) ==
  IF items = <<>> THEN 0
  ELSE (IF Head(items).live /\ Head(items).cart_id = cid
        THEN Head(items).quantity ELSE 0)
       + SumQuantity(Tail(items), cid)

\* SUM(product_price * quantity) ... WHERE cart_id = ?, ?? 0.0
RECURSIVE SumAmount(_, _)
SumAmount(items, cid) ==
  IF items = <<>> THEN 0
  ELSE (IF Head(items).live /\ Head(items).cart_id = cid
        THEN Head(items).product_price * Head(items).quantity ELSE 0)
       + SumAmount(Tail(items), cid)

\* UPDATE carts SET item_count = ?, total_amount = ? WHERE id = ?
Recompute(cs, items, cid) ==
  [cs EXCEPT ![cid].item_count = SumQuantity(items, cid),
             ![cid].total_amount = SumAmount(items, cid)]

\* SELECT id, quantity FROM cart_items WHERE cart_id = ? AND product_id = ?
ExistingItems(items, cid, productId) ==
  {i \in 1..Len(items) :
     /\ items[i].live
     /\ items[i].cart_id = cid
     /\ items[i].product_id = productId}

\* always a new row
AddItemAppend(items, cid, productId, price, qty) ==
  Append(items, [cart_id |-> cid, product_id |-> productId,
                 product_price |-> price, quantity |-> qty, live |-> TRUE])

\* existing row: quantity + qty; else a new row with the given price
\* (LIMIT 1: handlers that do not interleave leave at most one such row)
AddItem(items, cid, productId, price, qty) ==
  LET existing == ExistingItems(items, cid, productId)
  IN IF existing # {}
     THEN LET i == CHOOSE j \in existing : TRUE
          IN [items EXCEPT ![i].quantity = @ + qty]
     ELSE Append(items, [cart_id |-> cid, product_id |-> productId,
                         product_price |-> price, quantity |-> qty,
                         live |-> TRUE])

LiveCarts(cs, token, user) ==
  {c \in 1..Len(cs) :
     /\ cs[c].live
     /\ IF token # NoText THEN cs[c].token = token ELSE cs[c].user_id = user}

\* POST /cart with a token: find or create the cart, add, recompute
AddTables(cs, items, token, productId, price, qty) ==
  LET found == LiveCarts(cs, token, NULL)
      cs1 == IF found = {} THEN Append(cs, CartRow(token, NULL)) ELSE cs
      cartId == IF found = {} THEN Len(cs) + 1 ELSE CHOOSE c \in found : TRUE
      items1 == AddItem(items, cartId, productId, price, qty)
  IN [carts |-> Recompute(cs1, items1, cartId), cart_items |-> items1,
      cart_id |-> cartId]

\* for (const it of gItems): merge each guest item into the user cart
RECURSIVE MergeItems(_, _, _)
MergeItems(items, gItems, userCartId) ==
  IF gItems = <<>> THEN items
  ELSE LET it == items[Head(gItems)]
       IN MergeItems(AddItem(items, userCartId, it.product_id,
                             it.product_price, it.quantity),
                     Tail(gItems), userCartId)

\* POST /cart/merge: get or create the user cart, merge, delete the guest
\* cart and its items, recompute the user cart
MergeTables(cs, items, user, guestId) ==
  LET found == LiveCarts(cs, NoText, user)
      cs1 == IF found = {} THEN Append(cs, CartRow(NullText, user)) ELSE cs
      userCartId == IF found = {} THEN Len(cs) + 1
                    ELSE CHOOSE c \in found : TRUE
      gItems == SortedSeq({i \in 1..Len(items) :
                             items[i].live /\ items[i].cart_id = guestId})
      items1 == MergeItems(items, gItems, userCartId)
      items2 == [i \in 1..Len(items1) |->
                   IF items1[i].cart_id = guestId
                   THEN [items1[i] EXCEPT !.live = FALSE] ELSE items1[i]]
      cs2 == [cs1 EXCEPT ![guestId].live = FALSE]
  IN [carts |-> Recompute(cs2, items2, userCartId), cart_items |-> items2,
      cart_id |-> userCartId]

\* the cart and its header as the response carries them
CartResponse(kind, code, cs, cid) ==
  [kind |-> kind, code |-> code, cart_id |-> cid,
   item_count |-> cs[cid].item_count, total_amount |-> cs[cid].total_amount]

CartStart(p) ==
  /\ pc[p] = "idle"
  /\ nops < MaxCartOps
  /\ nops' = nops + 1
  /\ SetTx(p, TxNone)
  /\ UNCHANGED <<dbvars, pc, loc, want, held, products0, lastWh>>

CartRefuse(p, kind, code) ==
  /\ resp' = [resp EXCEPT ![p] = [kind |-> kind, code |-> code]]
  /\ UNCHANGED cartvars

\* POST /cart
CartAdd(p, token, productId, quantity) ==
  /\ CartStart(p)
  /\ LET qty == IF quantity = Absent THEN 1 ELSE quantity
     IN IF quantity # Absent /\ quantity < 1
        THEN CartRefuse(p, "validation_failed", 400)
        ELSE IF productId \notin DOMAIN products
        THEN CartRefuse(p, "product_not_found", 404)
        ELSE IF token = NoText
        THEN CartRefuse(p, "use_cart_me", 401)
        ELSE LET t == AddTables(carts, cart_items, token, productId,
                                products[productId].price, qty)
             IN /\ carts' = t.carts
                /\ cart_items' = t.cart_items
                /\ resp' = [resp EXCEPT ![p] =
                              CartResponse("item_added", 201, t.carts,
                                           t.cart_id)]

\* SELECT ci.*, c.user_id FROM cart_items ci JOIN carts c ... WHERE ci.id = ?
ItemRowExists(itemId) ==
  /\ itemId \in 1..Len(cart_items)
  /\ cart_items[itemId].live
  /\ carts[cart_items[itemId].cart_id].live

\* PUT /cart/items/:itemId
CartUpdate(p, user, itemId, quantity) ==
  /\ CartStart(p)
  /\ IF quantity # Absent /\ quantity < 1
     THEN CartRefuse(p, "validation_failed", 400)
     ELSE IF ~ItemRowExists(itemId)
     THEN CartRefuse(p, "no_data", 200)
     ELSE IF carts[cart_items[itemId].cart_id].user_id # user
     THEN CartRefuse(p, "forbidden", 403)
     ELSE LET cid == cart_items[itemId].cart_id
              items1 == IF quantity = Absent THEN cart_items
                        ELSE [cart_items EXCEPT ![itemId].quantity = quantity]
              cs1 == Recompute(carts, items1, cid)
          IN /\ cart_items' = items1
             /\ carts' = cs1
             /\ resp' = [resp EXCEPT ![p] =
                           CartResponse("item_updated", 200, cs1, cid)]

\* DELETE /cart/items/:itemId
CartRemove(p, user, itemId) ==
  /\ CartStart(p)
  /\ IF ~ItemRowExists(itemId)
     THEN CartRefuse(p, "no_data", 200)
     ELSE IF carts[cart_items[itemId].cart_id].user_id # user
     THEN CartRefuse(p, "forbidden", 403)
     ELSE LET cid == cart_items[itemId].cart_id
              items1 == [cart_items EXCEPT ![itemId].live = FALSE]
              cs1 == Recompute(carts, items1, cid)
          IN /\ cart_items' = items1
             /\ carts' = cs1
             /\ resp' = [resp EXCEPT ![p] =
                           CartResponse("item_removed", 200, cs1, cid)]

\* POST /cart/merge
CartMerge(p, user, token) ==
  /\ CartStart(p)
  /\ IF token = NoText
     THEN CartRefuse(p, "validation_failed", 400)
     ELSE IF LiveCarts(carts, token, NULL) = {}
     THEN CartRefuse(p, "no_data", 200)
     ELSE LET guestId == CHOOSE c \in LiveCarts(carts, token, NULL) : TRUE
              t == MergeTables(carts, cart_items, user, guestId)
          IN /\ carts' = t.carts
             /\ cart_items' = t.cart_items
             /\ resp' = [resp EXCEPT ![p] =
                           CartResponse("merged", 200, t.carts, t.cart_id)]

\* a guest cart "t1" got 1 of product 1 and 2 of product 2 and was merged
\* into the cart of user 1
MergedCart ==
  LET a == AddTables(<<>>, <<>>, "t1", 1, InitProducts[1].price, 1)
      b == AddTables(a.carts, a.cart_items, "t1", 2, InitProducts[2].price, 2)
  IN MergeTables(b.carts, b.cart_items, 1, 1)

NoCart == [carts |-> <<>>, cart_items |-> <<>>]

InitCart ==
  /\ \E t \in {NoCart, MergedCart} :
       carts = t.carts /\ cart_items = t.cart_items
  /\ products = InitProducts
  /\ products0 = InitProducts
  /\ orders = <<>>
  /\ order_items = <<>>
  /\ payments = <<>>
  /\ InitProcs

\* one cart request handled by slot p
CartStep(p) ==
  \/ \E t \in CartTokens, id \in CartProductIds, q \in CartQtys :
       CartAdd(p, t, id, q)
  \/ \E u \in Users, i \in CartItemIds, q \in CartQtys :
       CartUpdate(p, u, i, q)
  \/ \E u \in Users, i \in CartItemIds : CartRemove(p, u, i)
  \/ \E u \in Users, t \in CartTokens : CartMerge(p, u, t)

NextCart == \E p \in Procs : CartStep(p)

SpecCart == InitCart /\ [][NextCart]_vars

\* user 1 owns a cart with 1 of product 1; afterwards the guest "t1" put 1
\* of product 1 and 2 of product 2 in a new cart, and then vendor 2 set
\* the price of product 2 to 7
UserAndGuestCart ==
  LET a == AddTables(<<>>, <<>>, "t1", 1, InitProducts[1].price, 1)
      m == MergeTables(a.carts, a.cart_items, 1, 1)
      b == AddTables(m.carts, m.cart_items, "t1", 1, InitProducts[1].price, 1)
  IN AddTables(b.carts, b.cart_items, "t1", 2, InitProducts[2].price, 2)

InitCartMerge ==
  /\ carts = UserAndGuestCart.carts
  /\ cart_items = UserAndGuestCart.cart_items
  /\ products = [InitProducts EXCEPT ![2].price = 7]
  /\ products0 = products
  /\ orders = <<>>
  /\ order_items = <<>>
  /\ payments = <<>>
  /\ InitProcs

SpecCartMerge == InitCartMerge /\ [][NextCart]_vars

----------------------------------------------------------------------------
(* POST /cart/merge, statement by statement. Every pool.query is its own
   autocommit statement; a statement that is rejected by the store throws,
   the handler's catch answers 500 and the statements before it stay
   committed. *)

MergePcs == {"mg_guest", "mg_user", "mg_insert_user", "mg_items",
             "mg_select", "mg_write", "mg_del_items", "mg_del_cart",
             "mg_agg", "mg_header", "mg_respond"}

MergeFrame == UNCHANGED <<dbvars, want, held, products0, tx, nops, lastWh>>

\* body("cart_token").notEmpty()
MergeBegin(p, user, token) ==
  /\ pc[p] = "idle"
  /\ nops < MaxCartOps
  /\ nops' = nops + 1
  /\ IF token = NoText
     THEN /\ resp' = [resp EXCEPT ![p] =
                        [kind |-> "validation_failed", code |-> 400]]
          /\ UNCHANGED <<pc, loc>>
     ELSE /\ pc' = [pc EXCEPT ![p] = "mg_guest"]
          /\ loc' = [loc EXCEPT ![p] =
                       [op |-> "merge", user |-> user, token |-> token]]
          /\ resp' = [resp EXCEPT ![p] = NoResp]
  /\ SetTx(p, TxNone)
  /\ UNCHANGED <<dbvars, cartvars, want, held, products0, lastWh>>

\* SELECT * FROM carts WHERE token = ? LIMIT 1
MergeFindGuest(p) ==
  /\ pc[p] = "mg_guest"
  /\ LET G == LiveCarts(carts, loc[p].token, NULL)
     IN IF G = {}
        THEN /\ Return(p, [kind |-> "no_data", code |-> 200])
             /\ UNCHANGED <<dbvars, cartvars, products0, tx, nops, lastWh>>
        ELSE /\ \E g \in G :
                  loc' = [loc EXCEPT ![p] =
                            [op |-> "merge", user |-> loc[p].user,
                             token |-> loc[p].token, guest |-> g]]
             /\ pc' = [pc EXCEPT ![p] = "mg_user"]
             /\ UNCHANGED <<cartvars, resp>>
             /\ MergeFrame

\* SELECT * FROM carts WHERE user_id = ? LIMIT 1
MergeFindUser(p) ==
  /\ pc[p] = "mg_user"
  /\ LET found == LiveCarts(carts, NoText, loc[p].user)
     IN IF found = {}
        THEN /\ pc' = [pc EXCEPT ![p] = "mg_insert_user"]
             /\ UNCHANGED loc
        ELSE /\ \E c \in found :
                  loc' = [loc EXCEPT ![p] =
                            [op |-> "merge", user |-> loc[p].user,
                             token |-> loc[p].token, guest |-> loc[p].guest,
                             userCartId |-> c]]
             /\ pc' = [pc EXCEPT ![p] = "mg_items"]
  /\ UNCHANGED <<cartvars, resp>>
  /\ MergeFrame

\* INSERT INTO carts (user_id, created_at, updated_at)
MergeInsertUser(p) ==
  /\ pc[p] = "mg_insert_user"
  /\ carts' = Append(carts, CartRow(NullText, loc[p].user))
  /\ loc' = [loc EXCEPT ![p] =
               [op |-> "merge", user |-> loc[p].user,
                token |-> loc[p].token, guest |-> loc[p].guest,
                userCartId |-> Len(carts) + 1]]
  /\ pc' = [pc EXCEPT ![p] = "mg_items"]
  /\ UNCHANGED <<cart_items, resp>>
  /\ MergeFrame

\* SELECT * FROM cart_items WHERE cart_id = ?  (the guest cart's)
MergeReadItems(p) ==
  /\ pc[p] = "mg_items"
  /\ LET ids == SortedSeq({i \in 1..Len(cart_items) :
                             /\ cart_items[i].live
                             /\ cart_items[i].cart_id = loc[p].guest})
         gItems == [k \in 1..Len(ids) |-> cart_items[ids[k]]]
     IN /\ loc' = [loc EXCEPT ![p] =
                     [op |-> "merge", user |-> loc[p].user,
                      token |-> loc[p].token, guest |-> loc[p].guest,
                      userCartId |-> loc[p].userCartId, gItems |-> gItems,
                      existing |-> NULL, existingQty |-> 0]]
        /\ pc' = [pc EXCEPT ![p] =
                    IF gItems = <<>> THEN "mg_del_items" ELSE "mg_select"]
  /\ UNCHANGED <<cartvars, resp>>
  /\ MergeFrame

\* SELECT id, quantity FROM cart_items WHERE cart_id = ? AND product_id = ?
\* LIMIT 1  (the user cart's row of the guest item's product)
MergeSelectExisting(p) ==
  /\ pc[p] = "mg_select"
  /\ LET it == Head(loc[p].gItems)
         existing == ExistingItems(cart_items, loc[p].userCartId,
                                   it.product_id)
     IN IF existing = {}
        THEN loc' = [loc EXCEPT ![p].existing = NULL, ![p].existingQty = 0]
        ELSE \E i \in existing :
               loc' = [loc EXCEPT ![p].existing = i,
                                  ![p].existingQty = cart_items[i].quantity]
  /\ pc' = [pc EXCEPT ![p] = "mg_write"]
  /\ UNCHANGED <<cartvars, resp>>
  /\ MergeFrame

\* UPDATE cart_items SET quantity = ? WHERE id = ?, or INSERT INTO
\* cart_items with the guest row's product_price and quantity
MergeWriteItem(p) ==
  /\ pc[p] = "mg_write"
  /\ LET it == Head(loc[p].gItems)
         i == loc[p].existing
     IN cart_items' =
          IF i = NULL
          THEN Append(cart_items,
                      [cart_id |-> loc[p].userCartId,
                       product_id |-> it.product_id,
                       product_price |-> it.product_price,
                       quantity |-> it.quantity, live |-> TRUE])
          ELSE IF cart_items[i].live
          THEN [cart_items EXCEPT ![i].quantity =
                                    loc[p].existingQty + it.quantity]
          ELSE cart_items
  /\ loc' = [loc EXCEPT ![p].gItems = Tail(@)]
  /\ pc' = [pc EXCEPT ![p] =
              IF Tail(loc[p].gItems) = <<>> THEN "mg_del_items"
              ELSE "mg_select"]
  /\ UNCHANGED <<carts, resp>>
  /\ MergeFrame

\* DELETE FROM cart_items WHERE cart_id = ?  (the guest cart's)
MergeDeleteItems(p) ==
  /\ pc[p] = "mg_del_items"
  /\ cart_items' = [i \in 1..Len(cart_items) |->
                      IF cart_items[i].cart_id = loc[p].guest
                      THEN [cart_items[i] EXCEPT !.live = FALSE]
                      ELSE cart_items[i]]
  /\ pc' = [pc EXCEPT ![p] = "mg_del_cart"]
  /\ UNCHANGED <<carts, loc, resp>>
  /\ MergeFrame

\* DELETE FROM carts WHERE id = ?
MergeDeleteCart(p) ==
  /\ pc[p] = "mg_del_cart"
  /\ carts' = [carts EXCEPT ![loc[p].guest].live = FALSE]
  /\ pc' = [pc EXCEPT ![p] = "mg_agg"]
  /\ UNCHANGED <<cart_items, loc, resp>>
  /\ MergeFrame

\* SELECT SUM(quantity), SUM(product_price * quantity) FROM cart_items
\* WHERE cart_id = ?
MergeAggregate(p) ==
  /\ pc[p] = "mg_agg"
  /\ loc' = [loc EXCEPT ![p].existing =
               SumQuantity(cart_items, loc[p].userCartId),
                        ![p].existingQty =
               SumAmount(cart_items, loc[p].userCartId)]
  /\ pc' = [pc EXCEPT ![p] = "mg_header"]
  /\ UNCHANGED <<cartvars, resp>>
  /\ MergeFrame

\* UPDATE carts SET item_count = ?, total_amount = ? WHERE id = ?
MergeUpdateHeader(p) ==
  /\ pc[p] = "mg_header"
  /\ carts' = [carts EXCEPT ![loc[p].userCartId].item_count = loc[p].existing,
                            ![loc[p].userCartId].total_amount =
                              loc[p].existingQty]
  /\ pc' = [pc EXCEPT ![p] = "mg_respond"]
  /\ UNCHANGED <<cart_items, loc, resp>>
  /\ MergeFrame

\* SELECT * FROM carts WHERE id = ?, SELECT * FROM cart_items WHERE
\* cart_id = ?; success(res, cartResp, "Cart merged", 200)
MergeRespond(p) ==
  /\ pc[p] = "mg_respond"
  /\ Return(p, CartResponse("merged", 200, carts, loc[p].userCartId))
  /\ UNCHANGED <<dbvars, cartvars, products0, tx, nops, lastWh>>

\* the statement about to run is rejected by the store:
\* catch (err) -> 500 "Server error merging cart"
MergeFail(p) ==
  /\ pc[p] \in MergePcs
  /\ Return(p, [kind |-> "server_error", code |-> 500])
  /\ UNCHANGED <<dbvars, cartvars, products0, tx, nops, lastWh>>

NextMergeSteps ==
  \E p \in Procs :
    \/ \E u \in Users, t \in CartTokens : MergeBegin(p, u, t)
    \/ MergeFindGuest(p)
    \/ MergeFindUser(p)
    \/ MergeInsertUser(p)
    \/ MergeReadItems(p)
    \/ MergeSelectExisting(p)
    \/ MergeWriteItem(p)
    \/ MergeDeleteItems(p)
    \/ MergeDeleteCart(p)
    \/ MergeAggregate(p)
    \/ MergeUpdateHeader(p)
    \/ MergeRespond(p)
    \/ MergeFail(p)

SpecMergeSteps == InitCartMerge /\ [][NextMergeSteps]_vars

----------------------------------------------------------------------------
(* checkoutCartToOrders(cartId, shipping, payment, buyerId): one
   transaction. The cart and its items are read without a lock; each
   UPDATE products takes the product's row lock and keeps it until the
   commit. POST /cart stores no vendor_id on a cart item (its product
   read does not select one), so all items fall into the one group "0"
   and one order is created. *)

CartCheckoutIds == {2, 3, 5}
CartPaymentStatuses == {"paid", NoText}

\* SELECT * FROM carts WHERE id = ?; SELECT * FROM cart_items WHERE cart_id = ?
CartCheckoutBegin(p, cartId, buyerId, status) ==
  /\ pc[p] = "idle"
  /\ nops < MaxCartOps
  /\ nops' = nops + 1
  /\ LET ids == SortedSeq({i \in 1..Len(cart_items) :
                             /\ cart_items[i].live
                             /\ cart_items[i].cart_id = cartId})
         items == [k \in 1..Len(ids) |-> cart_items[ids[k]]]
         keys == SelectSeq([k \in 1..Len(items) |->
                              ProductKey(items[k].product_id)],
                           LAMBDA key : key[2] \in DOMAIN products)
     IN IF ~(cartId \in 1..Len(carts) /\ carts[cartId].live)
        THEN /\ resp' = [resp EXCEPT ![p] =
                           [kind |-> "cart_not_found", success |-> FALSE]]
             /\ SetTx(p, release(rollback(TxOpen)))
             /\ UNCHANGED <<pc, loc, want>>
        ELSE IF items = <<>>
        THEN /\ resp' = [resp EXCEPT ![p] =
                           [kind |-> "cart_empty", success |-> FALSE]]
             /\ SetTx(p, release(rollback(TxOpen)))
             /\ UNCHANGED <<pc, loc, want>>
        ELSE /\ loc' = [loc EXCEPT ![p] =
                          [op |-> "cart_checkout", cartId |-> cartId,
                           buyerId |-> buyerId, status |-> status,
                           items |-> items]]
             /\ want' = [want EXCEPT ![p] = keys]
             /\ pc' = [pc EXCEPT ![p] =
                         IF keys = <<>> THEN "cc_run" ELSE "cc_lock"]
             /\ resp' = [resp EXCEPT ![p] = NoResp]
             /\ SetTx(p, TxOpen)
  /\ UNCHANGED <<dbvars, cartvars, held, products0, lastWh>>

\* UPDATE products SET quantity = GREATEST(0, quantity - ?) WHERE id = ?:
\* the statement waits for the row lock of the product
CartCheckoutLock(p) ==
  /\ pc[p] = "cc_lock"
  /\ want[p] # <<>>
  /\ LockFree(Head(want[p]), p)
  /\ held' = [held EXCEPT ![p] = @ \cup {Head(want[p])}]
  /\ want' = [want EXCEPT ![p] = Tail(@)]
  /\ pc' = [pc EXCEPT ![p] = IF Tail(want[p]) = <<>> THEN "cc_run" ELSE @]
  /\ UNCHANGED <<dbvars, cartvars, loc, resp, products0, tx, nops, lastWh>>

\* total += Number(it.product_price) * Number(it.quantity)
RECURSIVE CartTotal(_)
CartTotal(items) ==
  IF items = <<>> THEN 0
  ELSE Head(items).product_price * Head(items).quantity
       + CartTotal(Tail(items))

\* quantity = GREATEST(0, quantity - ?) for each item whose product exists
RECURSIVE ReduceStock(_, _)
ReduceStock(items, prods) ==
  IF items = <<>> THEN prods
  ELSE LET it == Head(items)
       IN ReduceStock(Tail(items),
            IF it.product_id \in DOMAIN prods
            THEN [prods EXCEPT ![it.product_id].quantity =
                    IF @ - it.quantity > 0 THEN @ - it.quantity ELSE 0]
            ELSE prods)

\* the order, its items, the stock, the payment snapshot, the cart
\* cleared; commit
CartCheckoutRun(p) ==
  /\ pc[p] = "cc_run"
  /\ LET items == loc[p].items
         total == CartTotal(items)
         orderId == Len(orders) + 1
     IN /\ orders' = Append(orders,
                       [OrderRow(loc[p].buyerId, NULL, NULL, total)
                          EXCEPT !.status = "processing"])
        /\ order_items' =
             order_items \o
               [k \in 1..Len(items) |->
                  [order_id |-> orderId, product_id |-> items[k].product_id,
                   quantity |-> items[k].quantity,
                   unit_price |-> items[k].product_price]]
        /\ products' = ReduceStock(items, products)
        /\ payments' = Append(payments,
                         PaymentRow(orderId, "card", NullText, total,
                                    IF loc[p].status = NoText THEN "pending"
                                    ELSE loc[p].status, NULL))
        /\ cart_items' = [i \in 1..Len(cart_items) |->
                            IF cart_items[i].cart_id = loc[p].cartId
                            THEN [cart_items[i] EXCEPT !.live = FALSE]
                            ELSE cart_items[i]]
        /\ carts' = [carts EXCEPT ![loc[p].cartId].live = FALSE]
        /\ Return(p, [kind |-> "cart_checked_out", success |-> TRUE,
                      orders |-> <<orderId>>])
        /\ SetTx(p, release(commit(tx[p])))
  /\ UNCHANGED <<products0, nops, lastWh>>

\* POST /orders bodies with one line of product 2
StockRequests == {<<[product_id |-> 2, quantity |-> q]>> : q \in {1, 3}}

\* cart requests, cart checkouts and POST /orders on the same products
NextCartCheckout ==
  \E p \in Procs :
    \/ CartStep(p)
    \/ \E c \in CartCheckoutIds, u \in CheckoutUsers,
          st \in CartPaymentStatuses : CartCheckoutBegin(p, c, u, st)
    \/ CartCheckoutLock(p)
    \/ CartCheckoutRun(p)
    \/ \E u \in CheckoutUsers, r \in StockRequests : CheckoutBegin(p, u, r)
    \/ CheckoutLock(p)
    \/ CheckoutRun(p)

SpecCartCheckout == InitCartMerge /\ [][NextCartCheckout]_vars

----------------------------------------------------------------------------
(* POST /cart, statement by statement, next to POST /cart/merge and
   DELETE /cart/items/:itemId. No handler of the cart opens a transaction
   or takes a lock: the statements of concurrent requests interleave. *)

\* validators, product snapshot, the cart of the token (found, LIMIT 1, or
\* inserted)
AddBegin(p, token, productId, quantity) ==
  /\ pc[p] = "idle"
  /\ nops < MaxCartOps
  /\ nops' = nops + 1
  /\ SetTx(p, TxNone)
  /\ IF quantity # Absent /\ quantity < 1
     THEN CartRefuse(p, "validation_failed", 400) /\ UNCHANGED <<pc, loc>>
     ELSE IF productId \notin DOMAIN products
     THEN CartRefuse(p, "product_not_found", 404) /\ UNCHANGED <<pc, loc>>
     ELSE IF token = NoText
     THEN CartRefuse(p, "use_cart_me", 401) /\ UNCHANGED <<pc, loc>>
     ELSE LET found == LiveCarts(carts, token, NULL)
          IN /\ \E c \in IF found = {} THEN {Len(carts) + 1} ELSE found :
                  loc' = [loc EXCEPT ![p] =
                            [op |-> "add", cartId |-> c,
                             productId |-> productId,
                             price |-> products[productId].price,
                             qty |-> IF quantity = Absent THEN 1
                                     ELSE quantity,
                             existing |-> NULL, existingQty |-> 0]]
             /\ carts' = IF found = {}
                         THEN Append(carts, CartRow(token, NULL)) ELSE carts
             /\ pc' = [pc EXCEPT ![p] = "ad_select"]
             /\ resp' = [resp EXCEPT ![p] = NoResp]
             /\ UNCHANGED cart_items
  /\ UNCHANGED <<dbvars, want, held, products0, lastWh>>

\* SELECT id, quantity FROM cart_items WHERE cart_id = ? AND product_id = ?
\* LIMIT 1
AddSelectExisting(p) ==
  /\ pc[p] = "ad_select"
  /\ LET existing == ExistingItems(cart_items, loc[p].cartId,
                                   loc[p].productId)
     IN IF existing = {}
        THEN loc' = [loc EXCEPT ![p].existing = NULL, ![p].existingQty = 0]
        ELSE \E i \in existing :
               loc' = [loc EXCEPT ![p].existing = i,
                                  ![p].existingQty = cart_items[i].quantity]
  /\ pc' = [pc EXCEPT ![p] = "ad_write"]
  /\ UNCHANGED <<cartvars, resp>>
  /\ MergeFrame

\* UPDATE cart_items SET quantity = existingItems[0].quantity + qty WHERE
\* id = ? (no row if it was deleted meanwhile), or INSERT INTO cart_items
AddWriteItem(p) ==
  /\ pc[p] = "ad_write"
  /\ LET i == loc[p].existing
     IN cart_items' =
          IF i = NULL
          THEN Append(cart_items,
                      [cart_id |-> loc[p].cartId,
                       product_id |-> loc[p].productId,
                       product_price |-> loc[p].price,
                       quantity |-> loc[p].qty, live |-> TRUE])
          ELSE IF cart_items[i].live
          THEN [cart_items EXCEPT ![i].quantity =
                                    loc[p].existingQty + loc[p].qty]
          ELSE cart_items
  /\ pc' = [pc EXCEPT ![p] = "ad_agg"]
  /\ UNCHANGED <<carts, loc, resp>>
  /\ MergeFrame

\* SELECT SUM(quantity), SUM(product_price * quantity) FROM cart_items
\* WHERE cart_id = ?
AddAggregate(p) ==
  /\ pc[p] = "ad_agg"
  /\ loc' = [loc EXCEPT ![p].existing =
               SumQuantity(cart_items, loc[p].cartId),
                        ![p].existingQty =
               SumAmount(cart_items, loc[p].cartId)]
  /\ pc' = [pc EXCEPT ![p] = "ad_header"]
  /\ UNCHANGED <<cartvars, resp>>
  /\ MergeFrame

\* UPDATE carts SET item_count = ?, total_amount = ? WHERE id = ?
\* (no row if the cart was deleted meanwhile)
AddUpdateHeader(p) ==
  /\ pc[p] = "ad_header"
  /\ carts' = IF carts[loc[p].cartId].live
              THEN [carts EXCEPT
                      ![loc[p].cartId].item_count = loc[p].existing,
                      ![loc[p].cartId].total_amount = loc[p].existingQty]
              ELSE carts
  /\ pc' = [pc EXCEPT ![p] = "ad_respond"]
  /\ UNCHANGED <<cart_items, loc, resp>>
  /\ MergeFrame

\* SELECT * FROM carts WHERE id = ? LIMIT 1; cartResp.items = itemsRows
\* throws when the cart is gone: catch -> 500
AddRespond(p) ==
  /\ pc[p] = "ad_respond"
  /\ Return(p, IF carts[loc[p].cartId].live
               THEN CartResponse("item_added", 201, carts, loc[p].cartId)
               ELSE [kind |-> "server_error", code |-> 500])
  /\ UNCHANGED <<dbvars, cartvars, products0, tx, nops, lastWh>>

\* adds of one unit to the guest cart "t1", its merge into the cart of
\* user 1 or of user 2 (who has none), and user 1 removing the item of
\* their cart
NextCartRace ==
  \E p \in Procs :
    \/ \E id \in {1, 2} : AddBegin(p, "t1", id, Absent)
    \/ AddSelectExisting(p)
    \/ AddWriteItem(p)
    \/ AddAggregate(p)
    \/ AddUpdateHeader(p)
    \/ AddRespond(p)
    \/ \E u \in Users : MergeBegin(p, u, "t1")
    \/ MergeFindGuest(p)
    \/ MergeFindUser(p)
    \/ MergeInsertUser(p)
    \/ MergeReadItems(p)
    \/ MergeSelectExisting(p)
    \/ MergeWriteItem(p)
    \/ MergeDeleteItems(p)
    \/ MergeDeleteCart(p)
    \/ MergeAggregate(p)
    \/ MergeUpdateHeader(p)
    \/ MergeRespond(p)
    \/ CartRemove(p, 1, 2)

SpecCartRace == InitCartMerge /\ [][NextCartRace]_vars

----------------------------------------------------------------------------
(* Store failures in the transactional handlers. A statement that the store
   rejects throws; the handler's catch rolls back and answers 500, its
   finally releases the connection. The writes of a transaction reach the
   tables at its commit, so a rollback leaves the tables as they are. *)

ServerError == [kind |-> "server_error", code |-> 500]

\* getConnection, beginTransaction or the first statement of a valid
\* request fails: without a connection there is no transaction, otherwise
\* catch -> rollback, finally -> release
OpenFail(p, t) ==
  /\ pc[p] = "idle"
  /\ nops < MaxPayOps
  /\ nops' = nops + 1
  /\ resp' = [resp EXCEPT ![p] = ServerError]
  /\ SetTx(p, release(rollback(t)))
  /\ lastWh' = NoWebhook
  /\ UNCHANGED <<dbvars, cartvars, pc, loc, want, held, products0>>

\* a later statement of the handler at pc[p], or its commit, fails
StatementFail(p, at) ==
  /\ pc[p] \in at
  /\ Return(p, ServerError)
  /\ SetTx(p, release(rollback(tx[p])))
  /\ lastWh' = NoWebhook
  /\ UNCHANGED <<dbvars, cartvars, products0, nops>>

CheckoutFail(p) == StatementFail(p, {"co_lock", "co_run"})

PayFail(p) == StatementFail(p, {"pay_lock_children", "pay_run"})

WebhookFail(p) ==
  StatementFail(p, {"wh_lock_order", "wh_lock_children", "wh_run"})

\* POST /orders: the commit went through and the pool.query that reads the
\* master order back fails: catch -> rollback -> 500
CheckoutFetchFail(p) ==
  /\ pc[p] = "co_run"
  /\ LET items == loc[p].items
         prodById == loc[p].prodById
     IN /\ ValidateItems(items, prodById).kind = "ok"
        /\ FirstOrphan(items, prodById) = NULL
        /\ CheckoutWrites(loc[p].user, Len(orders) + 1, items, prodById)
  /\ Return(p, ServerError)
  /\ SetTx(p, release(rollback(commit(tx[p]))))
  /\ UNCHANGED <<payments, cartvars, products0, nops, lastWh>>

\* POST /orders bodies with one line of product 1
FaultyRequests == {<<[product_id |-> 1, quantity |-> q]>> : q \in {1, 3}}

FaultyOrderIds == {1, 2, 4}

FaultyStatuses == {"paid", "failed"}

\* the three handlers on the committed checkout, with a store that may
\* reject any statement
NextFaulty ==
  \E p \in Procs :
    \/ \E u \in CheckoutUsers, r \in FaultyRequests : CheckoutBegin(p, u, r)
    \/ CheckoutLock(p)
    \/ CheckoutRun(p)
    \/ \E u \in Users, o \in FaultyOrderIds :
         PayBegin(p, u, o, "manual", "X", 0)
    \/ PayLockChildren(p)
    \/ PayRun(p)
    \/ \E st \in FaultyStatuses, o \in FaultyOrderIds \cup {NULL} :
         WebhookBegin(p, "manual", "X", st, o)
    \/ WebhookLockOrder(p)
    \/ WebhookLockChildren(p)
    \/ WebhookRun(p)
    \/ \E t \in {TxNone, [TxNone EXCEPT !.conn = TRUE], TxOpen} :
         OpenFail(p, t)
    \/ CheckoutFail(p)
    \/ PayFail(p)
    \/ WebhookFail(p)
    \/ CheckoutFetchFail(p)

\* every statement a handler awaits is answered by the store, so a handler
\* that can take its next step takes it
FairFaulty ==
  \A p \in Procs :
    /\ WF_vars(CheckoutLock(p) \/ CheckoutRun(p))
    /\ WF_vars(PayLockChildren(p) \/ PayRun(p))
    /\ WF_vars(WebhookLockOrder(p) \/ WebhookLockChildren(p)
               \/ WebhookRun(p))

SpecFaulty == InitDirectPay /\ [][NextFaulty]_vars /\ FairFaulty

----------------------------------------------------------------------------
(* Checkouts and the operations that touch orders afterwards *)

\* one or two lines over the products of vendor 1 (1 and 3) and vendor 2
ShapeRequests ==
  UNION {[1..n -> [product_id : {1, 2, 3}, quantity : {1}]] :
           n \in ItemCounts}

NextOrderShape ==
  \E p \in Procs :
    \/ \E u \in CheckoutUsers, r \in ShapeRequests : CheckoutBegin(p, u, r)
    \/ CheckoutLock(p)
    \/ CheckoutRun(p)
    \/ \E o \in {1, 2} : PayBegin(p, 1, o, "manual", "X", 0)
    \/ PayLockChildren(p)
    \/ PayRun(p)
    \/ \E o \in {NULL, 2} : WebhookBegin(p, "manual", "X", "failed", o)
    \/ WebhookLockOrder(p)
    \/ WebhookLockChildren(p)
    \/ WebhookRun(p)
    \/ \E id \in {1, 2} : AdminSetStatus(p, id, "shipped")

\* all products have a vendor, or product 3 has lost its vendor
InitOrderShape == InitCheckout \/ InitOrphan

SpecOrderShape == InitOrderShape /\ [][NextOrderShape]_vars

----------------------------------------------------------------------------
(* Checkout claims *)

AllIdle == \A p \in Procs : pc[p] = "idle"

\* quantity of product id over all order_items rows
RECURSIVE SoldIn(_, _)
SoldIn(rows, id) ==
  IF rows = <<>> THEN 0
  ELSE (IF Head(rows).product_id = id THEN Head(rows).quantity ELSE 0)
       + SoldIn(Tail(rows), id)

IsMaster(o) == o.parent_order_id = NULL
ChildrenOf(tbl, m) == {k \in 1..Len(tbl) : tbl[k].parent_order_id = m}

RECURSIVE SumOver(_, _)
SumOver(S, f) ==
  IF S = {} THEN 0
  ELSE LET x == CHOOSE y \in S : TRUE IN f[x] + SumOver(S \ {x}, f)

ItemsTotalOf(k) ==
  LinesTotal(SelectSeq(order_items, LAMBDA r : r.order_id = k))

\* C1: in every reachable state of concurrent POST /orders checkouts every
\* product's quantity on hand is >= 0.
C1_StockNonNegative ==
  \A id \in DOMAIN products : products[id].quantity >= 0

\* two checkouts committed and drove a product to exactly zero
C1_Witness ==
  \E id \in DOMAIN products :
    /\ products[id].quantity = 0
    /\ \E i, j \in 1..Len(order_items) :
         /\ order_items[i].product_id = id /\ order_items[j].product_id = id
         /\ order_items[i].order_id # order_items[j].order_id

\* C2: once all checkouts have finished, initial quantity - final quantity
\* of every product equals the sum of the order_items quantities of that
\* product (only committed checkouts have order_items).
C2_StockBalanced ==
  AllIdle =>
    \A id \in DOMAIN products :
      products0[id].quantity - products[id].quantity = SoldIn(order_items, id)

\* both slots finished a committed checkout of the same product, and a
\* third request was rejected or never sent
C2_Witness ==
  /\ AllIdle
  /\ \A p \in Procs : resp[p].kind = "created"
  /\ \E id \in DOMAIN products :
       /\ SoldIn(order_items, id) = 2
       /\ \E i, j \in 1..Len(order_items) :
            /\ order_items[i].product_id = id /\ order_items[j].product_id = id
            /\ order_items[i].order_id # order_items[j].order_id

\* C3: a master's total_amount is the sum of its children's total_amount,
\* and a child's total_amount is the sum of unit_price x quantity over its
\* own order_items.
C3_HierarchyTotals ==
  \A m \in 1..Len(orders) :
    IF IsMaster(orders[m])
    THEN orders[m].total_amount =
           SumOver(ChildrenOf(orders, m),
                   [k \in 1..Len(orders) |-> orders[k].total_amount])
    ELSE orders[m].total_amount = ItemsTotalOf(m)

\* scenario A (1 @ 10 from vendor 1, 2 @ 5 from vendor 2): master 20 with
\* children 10 and 10; and a child with two lines of one vendor
C3_Witness ==
  /\ \E m \in 1..Len(orders) :
       /\ IsMaster(orders[m]) /\ orders[m].total_amount = 20
       /\ Cardinality(ChildrenOf(orders, m)) = 2
       /\ \A k \in ChildrenOf(orders, m) : orders[k].total_amount = 10
  /\ \E k \in 1..Len(orders) :
       /\ ~IsMaster(orders[k])
       /\ Len(SelectSeq(order_items, LAMBDA r : r.order_id = k)) = 2

\* a line of the request in flight asks for more than the quantity on hand
ShortLines(p) ==
  {i \in 1..Len(loc[p].items) :
     /\ loc[p].items[i].product_id \in DOMAIN products
     /\ loc[p].items[i].quantity >
          products[loc[p].items[i].product_id].quantity}

MissingLines(p) ==
  {i \in 1..Len(loc[p].items) :
     loc[p].items[i].product_id \notin DOMAIN products}

CheckoutReturns(p) == pc[p] = "co_run" /\ pc'[p] = "idle"

\* C4 as claimed: any short line makes the request fail with the
\* insufficient-stock error carrying requested and available, and leaves
\* orders, order_items and products as they were.
C4_Claimed ==
  [][\A p \in Procs :
       (CheckoutReturns(p) /\ ShortLines(p) # {}) =>
         /\ resp'[p].kind = "insufficient_stock"
         /\ \E i \in ShortLines(p) :
              /\ resp'[p].requested = loc[p].items[i].quantity
              /\ resp'[p].available =
                   products[loc[p].items[i].product_id].quantity
         /\ UNCHANGED <<orders, order_items, products>>]_vars

\* C4 amended: any short line makes the request fail and leaves orders,
\* order_items and products as they were; the failure is the
\* insufficient-stock error with the requested and available quantities of
\* the first short line, unless a line naming a product without a row comes
\* before it, and then it is the product-not-found result.
C4_ShortStockFails ==
  [][\A p \in Procs :
       (CheckoutReturns(p) /\ ShortLines(p) # {}) =>
         LET s == CHOOSE i \in ShortLines(p) : \A j \in ShortLines(p) : i <= j
         IN /\ UNCHANGED <<orders, order_items, products>>
            /\ IF \E j \in MissingLines(p) : j < s
               THEN resp'[p].kind = "no_data"
               ELSE /\ resp'[p].kind = "insufficient_stock"
                    /\ resp'[p].requested = loc[p].items[s].quantity
                    /\ resp'[p].available =
                         products[loc[p].items[s].product_id].quantity]_vars

\* an insufficient-stock answer (2 requested, 1 left after an earlier
\* committed checkout) for a request whose first line was in stock
C4_Witness ==
  \E p \in Procs :
    /\ resp[p].kind = "insufficient_stock"
    /\ resp[p].requested = 2 /\ resp[p].available = 1
    /\ Len(orders) > 0
    /\ \E id \in DOMAIN products :
         id # resp[p].product_id /\ products[id].quantity = InitQty

----------------------------------------------------------------------------
(* Payment claims *)

\* payments made for order o itself (not fanned out from a master payment)
DirectRows(tbl, o) ==
  {i \in 1..Len(tbl) : tbl[i].order_id = o /\ tbl[i].linked_payment_id = NULL}

LinkedRows(tbl, id) ==
  {i \in 1..Len(tbl) : tbl[i].linked_payment_id = id}

WebhookCommits(p) == pc[p] = "wh_run" /\ pc'[p] = "idle"
PayCommits(p) == pc[p] = "pay_run" /\ pc'[p] = "idle"
\* slot p answered a request in this step without opening further work
Answers(p) == pc[p] = "idle" /\ pc'[p] = "idle" /\ resp'[p] # resp[p]
\* slot p answered, in this step, a direct pay of order o by its owner
OwnerPayAnswered(p, o) ==
  /\ Answers(p)
  /\ "order_id" \in DOMAIN resp'[p]
  /\ resp'[p].order_id = o
  /\ resp'[p].kind # "forbidden"
\* slot p accepted a direct pay in this step
PayAccepted(p) == pc[p] = "idle" /\ loc'[p].op = "pay"

\* C5 as claimed: a delivery of the payload just delivered, with nothing in
\* between, leaves orders and payments as the first delivery left them (so
\* the number of rows per linked_payment_id is the same too).
C5_Claimed ==
  [][\A p \in Procs :
       (WebhookCommits(p) /\ loc[p].replay /\ lastWh = Payload(loc[p])) =>
         UNCHANGED <<orders, payments>>]_vars

\* C6: a direct pay on a master order commits, in one step, status paid on
\* the master and on every child, exactly one new payment for the master,
\* and per child exactly one new payment linked to it with the same
\* provider and provider_payment_id and the child's total_amount; nothing
\* else changes, and no step of a request other than its commit changes
\* an order or a payment.
C6_MasterPayAtomic ==
  [][/\ (orders' # orders \/ payments' # payments) =>
          \E p \in Procs : PayCommits(p) \/ WebhookCommits(p)
     /\ \A p \in Procs :
          (PayCommits(p) /\ loc[p].order.parent_order_id = NULL) =>
            LET m == loc[p].orderId
                kids == ChildIds(orders, m)
                new == (Len(payments) + 1)..Len(payments')
                mp == resp'[p].master_payment_id
            IN /\ orders'[m].status = "paid"
               /\ \A c \in kids : orders'[c].status = "paid"
               /\ \A o \in DOMAIN orders \ (kids \cup {m}) : orders'[o] = orders[o]
               /\ \A o \in DOMAIN orders :
                    orders'[o] = [orders[o] EXCEPT !.status = orders'[o].status]
               /\ \A i \in 1..Len(payments) : payments'[i] = payments[i]
               /\ Cardinality(new) = 1 + Cardinality(kids)
               /\ {i \in new : payments'[i].order_id = m} = {mp}
               /\ payments'[mp].linked_payment_id = NULL
               /\ \A c \in kids :
                    \E i \in new :
                      /\ {j \in new : payments'[j].order_id = c} = {i}
                      /\ payments'[i].linked_payment_id = mp
                      /\ payments'[i].provider = payments'[mp].provider
                      /\ payments'[i].provider_payment_id =
                           payments'[mp].provider_payment_id
                      /\ payments'[i].amount = orders[c].total_amount]_vars

\* the master of scenario A settled by one call: three orders paid, one
\* master payment with two linked payments of 10 each
C6_Witness ==
  \E p \in Procs :
    /\ resp[p].kind = "master_payment_recorded"
    /\ resp[p].children_count = 2
    /\ \A o \in {1, 2, 3} : orders[o].status = "paid"
    /\ LinkedRows(payments, resp[p].master_payment_id) # {}
    /\ \A i \in LinkedRows(payments, resp[p].master_payment_id) :
         payments[i].amount = 10 /\ payments[i].status = "paid"
    /\ Cardinality(LinkedRows(payments, resp[p].master_payment_id)) = 2

\* C7: a direct pay on a paid order is rejected as already paid and writes
\* nothing, and it is rejected so only then; every direct pay that commits
\* adds exactly one payment of its order; so an order never has two
\* payments of its own, however two direct pays on it interleave.
C7_OnePaymentPerOrder ==
  /\ [](\A o \in DOMAIN orders : Cardinality(DirectRows(payments, o)) <= 1)
  /\ [][\A p \in Procs :
          /\ PayAccepted(p) => orders[loc'[p].orderId].status # "paid"
          /\ (Answers(p) /\ resp'[p].kind = "already_paid") =>
               /\ orders[resp'[p].order_id].status = "paid"
               /\ UNCHANGED dbvars
          /\ (Answers(p) /\ resp'[p].kind = "forbidden") =>
               orders[resp'[p].order_id].user_id \in Users
          /\ PayCommits(p) =>
               /\ DirectRows(payments', loc[p].orderId) =
                    DirectRows(payments, loc[p].orderId)
                      \cup {Len(payments) + 1}
               /\ orders'[loc[p].orderId].status = "paid"]_vars

\* two direct pays on child order 2: one recorded its payment, the other
\* was answered already paid
C7_Witness ==
  \E p, q \in Procs :
    /\ resp[p].kind = "payment_recorded" /\ resp[p].order_id = 2
    /\ resp[q].kind = "already_paid" /\ resp[q].order_id = 2
    /\ Cardinality(DirectRows(payments, 2)) = 1

\* C8 as claimed: a committed webhook paid / failed / refunded whose lookup
\* matched a payment of a master order leaves the master and every child
\* with the mapped status.
C8_Claimed ==
  [][\A p \in Procs :
       (/\ WebhookCommits(p)
        /\ loc[p].payment # NULL
        /\ loc[p].order.parent_order_id = NULL
        /\ MappedStatus(loc[p].normalized) # NoText) =>
         /\ orders'[loc[p].order.id].status = MappedStatus(loc[p].normalized)
         /\ \A c \in ChildIds(orders, loc[p].order.id) :
              orders'[c].status = MappedStatus(loc[p].normalized)]_vars

AllowedTransitions ==
  {<<"pending", "paid">>, <<"pending", "payment_failed">>,
   <<"pending", "refunded">>, <<"paid", "refunded">>}

\* C9 as claimed: every change of an order's status is one of pending ->
\* paid, pending -> payment_failed, pending -> refunded, paid -> refunded.
C9_Claimed ==
  [][\A o \in DOMAIN orders :
       orders'[o].status # orders[o].status =>
         <<orders[o].status, orders'[o].status>> \in AllowedTransitions]_vars

\* the webhook status that produces an order status
Outcome(s) ==
  CASE s = "paid" -> "paid"
    [] s = "payment_failed" -> "failed"
    [] s = "refunded" -> "refunded"
    [] OTHER -> NoText

\* C10 as claimed: the outcome that produced an order's terminal status,
\* applied again by a direct pay or by a webhook, changes no order and no
\* payment row and is answered without an error.
C10_Claimed ==
  [][\A p \in Procs :
       /\ \A o \in DOMAIN orders :
            (OwnerPayAnswered(p, o) /\ orders[o].status = "paid") =>
              (resp'[p].code < 400 /\ UNCHANGED <<orders, payments>>)
       /\ (/\ WebhookCommits(p)
           /\ loc[p].normalized = Outcome(orders[loc[p].order.id].status)) =>
            (resp'[p].code < 400 /\ UNCHANGED <<orders, payments>>)]_vars

\* C10 amended: a webhook whose matched payment already has the delivered
\* status and whose order already has the mapped status changes no order
\* and no payment row and is answered with success; a direct pay on an
\* order that is already paid changes no row either, but is answered with
\* the already-paid error (400).
C10_ReapplyNoChange ==
  [][\A p \in Procs :
       /\ \A o \in DOMAIN orders :
            (OwnerPayAnswered(p, o) /\ orders[o].status = "paid") =>
              /\ resp'[p].kind = "already_paid" /\ resp'[p].code = 400
              /\ UNCHANGED <<orders, payments>>
       /\ PayAccepted(p) => orders[loc'[p].orderId].status # "paid"
       /\ (/\ WebhookCommits(p)
           /\ loc[p].payment # NULL
           /\ payments[loc[p].payment].status = loc[p].normalized
           /\ loc[p].normalized = Outcome(orders[loc[p].order.id].status)) =>
            (/\ resp'[p].code = 200 /\ resp'[p].kind = "updated"
             /\ UNCHANGED <<orders, payments>>)]_vars

\* a webhook "paid" was delivered for the master payment of the settled
\* hierarchy and changed nothing, and a direct pay on it was answered
\* already paid
C10_Witness ==
  \E p, q \in Procs :
    /\ resp[p].kind = "updated" /\ resp[p].status = "paid"
    /\ payments[resp[p].payment_id].order_id = 1
    /\ resp[q].kind = "already_paid" /\ resp[q].order_id = 1
    /\ orders = Settled.orders /\ payments = Settled.payments

\* no payment row has this provider and provider_payment_id
NoPaymentOf(provider, ppid) ==
  \A i \in 1..Len(payments) :
    ~(payments[i].provider = provider /\ payments[i].provider_payment_id = ppid)

\* C11: a valid webhook without order_id whose (provider,
\* provider_payment_id) is on no payment row is answered at once with the
\* no-data result "Payment record not found" (code 200, not an error) and
\* changes no table.
C11_UnknownWebhookNoData ==
  [][\A p \in Procs, pr \in WebhookProviders, pp \in WebhookPpids,
        st \in WebhookStatuses :
       (/\ pc[p] = "idle" /\ nops' # nops
        /\ WebhookBodyValid(pr, pp, st)
        /\ NoPaymentOf(pr, pp)
        /\ WebhookBegin(p, pr, pp, st, NULL)) =>
         /\ resp'[p] = [kind |-> "no_data", code |-> 200,
                        message |-> "Payment record not found"]
         /\ pc'[p] = "idle" /\ held'[p] = {}
         /\ UNCHANGED dbvars]_vars

\* scenario C: the only payment has no provider_payment_id, a webhook for
\* "X" without order_id was answered "Payment record not found", and
\* nothing was written
C11_Witness ==
  \E p \in Procs :
    /\ resp[p] = [kind |-> "no_data", code |-> 200,
                  message |-> "Payment record not found"]
    /\ lastWh = [provider |-> "manual", provider_payment_id |-> "X",
                 status |-> "paid", order_id |-> NULL]
    /\ Len(payments) = 1 /\ payments[1].provider_payment_id = NullText
    /\ orders[1].status = "pending"

\* C12: a committed webhook leaves on its payment row (matched or created)
\* the lower-cased status of the body; a status other than paid, failed,
\* refunded changes no order at all, and paid / failed / refunded leave
\* the owning order paid / payment_failed / refunded.
C12_StatusMapping ==
  [][\A p \in Procs :
       WebhookCommits(p) =>
         LET raw == loc[p].status
             pid == resp'[p].payment_id
             o == loc[p].order.id
         IN /\ payments'[pid].order_id = o
            /\ raw \in {"paid", "PAID"} =>
                 payments'[pid].status = "paid" /\ orders'[o].status = "paid"
            /\ raw = "failed" =>
                 /\ payments'[pid].status = "failed"
                 /\ orders'[o].status = "payment_failed"
            /\ raw = "refunded" =>
                 /\ payments'[pid].status = "refunded"
                 /\ orders'[o].status = "refunded"
            /\ raw = "disputed" =>
                 payments'[pid].status = "disputed" /\ orders' = orders]_vars

\* a webhook "disputed" created the payments of the pending master order:
\* master and linked payments are "disputed", every order is still pending
C12_Witness ==
  \E p \in Procs :
    /\ resp[p].kind = "created" /\ resp[p].status = "disputed"
    /\ Len(payments) = 3
    /\ \A i \in 1..3 : payments[i].status = "disputed"
    /\ payments[1].order_id = 1
    /\ \A o \in 1..3 : orders[o].status = "pending"

\* the body's status in lower case
Lowered(raw) == IF raw = "PAID" THEN "paid" ELSE raw

\* what the create path of the webhook commits: the old payments stay, one
\* new payment of the order of the body with the lower-cased status and the
\* order's total_amount; for a master one more payment per child, linked to
\* the new one, and master and children in the mapped status; for a child
\* nothing more than its own status
CreateEffect(p) ==
  LET o == loc[p].order_id
      n == Lowered(loc[p].status)
      pid == resp'[p].payment_id
      new == (Len(payments) + 1)..Len(payments')
      isMaster == orders[o].parent_order_id = NULL
      kids == IF isMaster THEN ChildIds(orders, o) ELSE {}
      to == CASE n = "paid" -> "paid"
              [] n = "failed" -> "payment_failed"
              [] n = "refunded" -> "refunded"
              [] OTHER -> NoText
  IN /\ \A i \in 1..Len(payments) : payments'[i] = payments[i]
     /\ {i \in new : payments'[i].order_id = o} = {pid}
     /\ payments'[pid].status = n
     /\ payments'[pid].amount = orders[o].total_amount
     /\ payments'[pid].linked_payment_id = NULL
     /\ Cardinality(new) = 1 + Cardinality(kids)
     /\ \A c \in kids :
          \E i \in new :
            /\ {j \in new : payments'[j].order_id = c} = {i}
            /\ payments'[i].linked_payment_id = pid
     /\ \A x \in DOMAIN orders :
          orders'[x] =
            IF x \in kids \cup {o} /\ to # NoText
            THEN [orders[x] EXCEPT !.status = to] ELSE orders[x]

\* a valid webhook for a key on no payment row, with an order_id of no order
OrderNotFound(p) ==
  \A pr \in WebhookProviders, pp \in WebhookPpids, st \in CreateStatuses,
     o \in WebhookOrderIds :
    (/\ WebhookBegin(p, pr, pp, st, o)
     /\ WebhookBodyValid(pr, pp, st)
     /\ NoPaymentOf(pr, pp)
     /\ o # NULL /\ o \notin DOMAIN orders) =>
      /\ resp'[p] = [kind |-> "no_data", code |-> 200,
                     message |-> "Order not found"]
      /\ UNCHANGED dbvars

\* C13 as claimed: the create path commits CreateEffect and the created
\* payment is never pending; an order_id of no order is answered not found
\* and writes nothing.
C13_Claimed ==
  [][\A p \in Procs :
       /\ (WebhookCommits(p) /\ loc[p].payment = NULL) =>
            (CreateEffect(p) /\ payments'[resp'[p].payment_id].status # "pending")
       /\ OrderNotFound(p)]_vars

\* C13 amended: the create path commits CreateEffect, where the status of
\* the created payment is the lower-cased status of the body, whatever it
\* is (pending when the body says pending); an order_id of no order is
\* answered not found and writes nothing.
C13_CreatePath ==
  [][\A p \in Procs :
       /\ (WebhookCommits(p) /\ loc[p].payment = NULL) => CreateEffect(p)
       /\ OrderNotFound(p)]_vars

\* a webhook "PAID" for master order 1 created payment 1 of 20 and linked
\* payments of 10 for orders 2 and 3, all three orders paid; another for
\* order 4, which does not exist, was answered "Order not found"
C13_Witness ==
  \E p, q \in Procs :
    /\ resp[p] = [kind |-> "created", code |-> 200, payment_id |-> 1,
                  status |-> "paid"]
    /\ resp[q] = [kind |-> "no_data", code |-> 200,
                  message |-> "Order not found"]
    /\ Len(payments) = 3 /\ payments[1].amount = 20
    /\ \A i \in {2, 3} : payments[i].linked_payment_id = 1
    /\ \A o \in 1..3 : orders[o].status = "paid"

\* payments of order o itself with this key
KeyedRows(o, provider, ppid) ==
  {i \in DirectRows(payments, o) :
     payments[i].provider = provider /\ payments[i].provider_payment_id = ppid}

\* C14 as claimed: when the deliveries for key ("manual", "X") and master
\* order 1 have all finished, the key has exactly one payment of the master
\* and as many payments linked to it as the master has children.
C14_Claimed ==
  (AllIdle /\ KeyedRows(1, "manual", "X") # {}) =>
    /\ Cardinality(KeyedRows(1, "manual", "X")) = 1
    /\ \A m \in KeyedRows(1, "manual", "X") :
         linkedCnt(payments, m) = Cardinality(ChildIds(orders, 1))

\* C15 as claimed: every (provider, provider_payment_id) is on at most one
\* payment row, so the webhook lookup has one row to return.
C15_Claimed ==
  \A pr \in PayProviders, pp \in PayPpids :
    Cardinality(MatchingPayments(payments, pr, pp)) <= 1

IsChildOrder(o) == orders[o].parent_order_id # NULL

\* payment i is linked to a payment of the master of its order
LinkedToMaster(i) ==
  /\ payments[i].linked_payment_id \in 1..Len(payments)
  /\ payments[payments[i].linked_payment_id].order_id =
       orders[payments[i].order_id].parent_order_id

----------------------------------------------------------------------------
(* Checkout claims, continued *)

\* sum of the quantities of the occurrences of product id in an item list
RECURSIVE QtyOf(_, _)
QtyOf(input, id) ==
  IF input = <<>> THEN 0
  ELSE (IF Head(input).product_id = id THEN Head(input).quantity ELSE 0)
       + QtyOf(Tail(input), id)

CheckoutFinishes(p) == pc[p] = "co_run" /\ pc'[p] = "idle"

\* C17: the handler works on one entry per distinct product id of the body,
\* with the sum of the quantities of its occurrences; a checkout that
\* commits found that sum within on-hand for every product, inserted
\* exactly one order_items row per distinct product with that sum, and
\* took exactly that sum from the stock; a sum above on-hand is answered
\* insufficient stock with that sum as requested.
C17_MergedOnce ==
  [][\A p \in Procs :
       /\ \A u \in CheckoutUsers, input \in MergeRequests :
            CheckoutBegin(p, u, input) =>
              LET items == loc'[p].items
              IN /\ \A i, j \in 1..Len(items) :
                      i # j => items[i].product_id # items[j].product_id
                 /\ {items[i].product_id : i \in 1..Len(items)} =
                      {input[i].product_id : i \in 1..Len(input)}
                 /\ \A i \in 1..Len(items) :
                      items[i].quantity = QtyOf(input, items[i].product_id)
       /\ CheckoutFinishes(p) =>
            LET items == loc[p].items
                ids == {items[i].product_id : i \in 1..Len(items)}
                new == (Len(order_items) + 1)..Len(order_items')
                short == {i \in 1..Len(items) :
                            items[i].quantity >
                              products[items[i].product_id].quantity}
            IN IF short = {}
               THEN /\ resp'[p].kind = "created"
                    /\ Cardinality(new) = Len(items)
                    /\ \A i \in 1..Len(items) :
                         /\ \E r \in new :
                              /\ {x \in new : order_items'[x].product_id =
                                               items[i].product_id} = {r}
                              /\ order_items'[r].quantity = items[i].quantity
                         /\ products'[items[i].product_id].quantity =
                              products[items[i].product_id].quantity
                                - items[i].quantity
                    /\ \A id \in DOMAIN products \ ids :
                         products'[id] = products[id]
               ELSE /\ resp'[p].kind = "insufficient_stock"
                    /\ \E i \in short :
                         /\ resp'[p].product_id = items[i].product_id
                         /\ resp'[p].requested = items[i].quantity
                    /\ UNCHANGED dbvars]_vars

\* product 1 sent twice: 2 + 1 was refused as 3 requested with 2 on hand,
\* and 1 + 1 was sold as one order_items row of 2, leaving 0
C17_Witness ==
  \E p, q \in Procs :
    /\ resp[p].kind = "insufficient_stock" /\ resp[p].requested = 3
    /\ resp[p].available = 2 /\ resp[p].product_id = 1
    /\ resp[q].kind = "created"
    /\ Len(order_items) = 1
    /\ order_items[1].product_id = 1 /\ order_items[1].quantity = 2
    /\ products[1].quantity = 0

\* C18: a committed checkout wrote, for every new order_items row, the
\* product's ledger price as it stands at the commit (it was read under
\* the row lock, which keeps a vendor's price update out until then),
\* whatever price the body carried; each new child total is the sum of
\* unit_price x quantity over its rows and the master total is the sum of
\* the child totals.
C18_LedgerPrice ==
  [][\A p \in Procs :
       (CheckoutFinishes(p) /\ resp'[p].kind = "created") =>
         LET m == resp'[p].master_id
             new == (Len(order_items) + 1)..Len(order_items')
         IN /\ new # {}
            /\ \A r \in new :
                 order_items'[r].unit_price =
                   products[order_items'[r].product_id].price
            /\ \A k \in ChildrenOf(orders', m) :
                 orders'[k].total_amount =
                   LinesTotal(SelectSeq(order_items',
                                        LAMBDA r : r.order_id = k))
            /\ orders'[m].total_amount =
                 SumOver(ChildrenOf(orders', m),
                         [k \in 1..Len(orders') |->
                            orders'[k].total_amount])]_vars

\* vendor 1 repriced product 1 to 7, then a checkout of products 1 and 2
\* committed at 7 and 5: master 12 with children 7 and 5
C18_Witness ==
  /\ products[1].price = 7
  /\ Len(orders) = 3
  /\ orders[1].total_amount = 12
  /\ orders[2].total_amount = 7 /\ orders[3].total_amount = 5
  /\ \E r \in 1..Len(order_items) :
       order_items[r].product_id = 1 /\ order_items[r].unit_price = 7

----------------------------------------------------------------------------
(* Writers of the ledger columns *)

\* C19 as claimed: an order's status and a payment's status change only in
\* the commit of a direct pay or of a webhook, and a product's quantity
\* only in the commit of a checkout, each holding the lock of the row.
C19_Claimed ==
  [][/\ \A o \in DOMAIN orders :
          orders'[o].status # orders[o].status =>
            \E p \in Procs :
              /\ PayCommits(p) \/ WebhookCommits(p)
              /\ OrderKey(o) \in held[p]
     /\ \A i \in DOMAIN payments :
          payments'[i].status # payments[i].status =>
            \E p \in Procs : WebhookCommits(p) /\ PaymentKey(i) \in held[p]
     /\ \A id \in DOMAIN products :
          products'[id].quantity # products[id].quantity =>
            \E p \in Procs :
              CheckoutFinishes(p) /\ ProductKey(id) \in held[p]]_vars

----------------------------------------------------------------------------
(* Cart claims *)

LiveItemsOf(items, c) ==
  {i \in 1..Len(items) : items[i].live /\ items[i].cart_id = c}

\* slot p completed a cart mutation in this step
CartMutated(p) ==
  /\ resp'[p].kind \in {"item_added", "item_updated", "item_removed",
                        "merged"}
  /\ \A q \in Procs \ {p} : resp'[q] = resp[q]
  /\ CartStep(p)

\* C20: after each completed add, update, remove or merge the header of
\* the cart it worked on has item_count = sum of quantity and
\* total_amount = sum of product_price x quantity over the cart's items
\* (0 and 0 for a cart without items), and the response carries them.
C20_HeaderRecomputed ==
  [][\A p \in Procs :
       CartMutated(p) =>
         LET c == resp'[p].cart_id
             its == LiveItemsOf(cart_items', c)
         IN /\ carts'[c].live
            /\ carts'[c].item_count =
                 SumOver(its, [i \in 1..Len(cart_items') |->
                                 cart_items'[i].quantity])
            /\ carts'[c].total_amount =
                 SumOver(its, [i \in 1..Len(cart_items') |->
                                 cart_items'[i].product_price
                                   * cart_items'[i].quantity])
            /\ resp'[p].item_count = carts'[c].item_count
            /\ resp'[p].total_amount = carts'[c].total_amount]_vars

\* the cart of user 1 (3 items, 20) lost its row of product 1 and has 2
\* items for 10; the other slot emptied a cart, whose header went to 0
C20_Witness ==
  \E p, q \in Procs :
    /\ resp[p].kind = "item_removed"
    /\ resp[p].item_count = 2 /\ resp[p].total_amount = 10
    /\ resp[q].kind = "item_removed"
    /\ resp[q].item_count = 0 /\ resp[q].total_amount = 0
    /\ carts[resp[q].cart_id].item_count = 0
    /\ LiveItemsOf(cart_items, resp[q].cart_id) = {}

\* rows of product pid in cart c
RowsOf(items, c, pid) ==
  {i \in LiveItemsOf(items, c) : items[i].product_id = pid}

QtyIn(items, c, pid) ==
  SumOver(RowsOf(items, c, pid), [i \in 1..Len(items) |-> items[i].quantity])

\* slot p merged the guest cart of token t into the cart of user u
Merged(p, u, t) ==
  /\ resp'[p].kind = "merged"
  /\ \A q \in Procs \ {p} : resp'[q] = resp[q]
  /\ CartMerge(p, u, t)

\* C21: after a successful merge of guest cart G into user cart U, for
\* every product U holds its quantity before plus G's quantity before, in
\* at most one row; a product that was only in G has a new row with G's
\* price; G and all of its items are gone.
C21_MergeSums ==
  [][\A p \in Procs, u \in Users, t \in CartTokens :
       Merged(p, u, t) =>
         LET G == {c \in 1..Len(carts) : carts[c].live /\ carts[c].token = t}
             U == resp'[p].cart_id
         IN /\ G # {}
            /\ carts'[U].live /\ carts'[U].user_id = u
            /\ \A g \in G :
                 /\ ~carts'[g].live
                 /\ LiveItemsOf(cart_items', g) = {}
                 /\ \A pid \in DOMAIN products :
                      /\ QtyIn(cart_items', U, pid) =
                           QtyIn(cart_items, U, pid) + QtyIn(cart_items, g, pid)
                      /\ Cardinality(RowsOf(cart_items', U, pid)) <= 1
                      /\ (RowsOf(cart_items, U, pid) = {}) =>
                           \A i \in RowsOf(cart_items', U, pid) :
                             \E j \in RowsOf(cart_items, g, pid) :
                               /\ i \notin 1..Len(cart_items)
                               /\ cart_items'[i].product_price =
                                    cart_items[j].product_price]_vars

\* user 1 had 1 of product 1; the guest cart 3 had 1 of product 1 and 2 of
\* product 2 at 5 each: after the merge the user's row of product 1 holds
\* 2, a new row holds 2 of product 2 at 5 (the product now costs 7), and
\* cart 3 and its rows are gone
C21_Witness ==
  \E p \in Procs :
    /\ resp[p].kind = "merged" /\ resp[p].cart_id = 2
    /\ Len(carts) = 3 /\ ~carts[3].live
    /\ LiveItemsOf(cart_items, 3) = {}
    /\ QtyIn(cart_items, 2, 1) = 2
    /\ Cardinality(RowsOf(cart_items, 2, 1)) = 1
    /\ \E i \in RowsOf(cart_items, 2, 2) :
         /\ cart_items[i].quantity = 2
         /\ cart_items[i].product_price = 5
         /\ products[2].price = 7

\* C22: a POST /cart/merge in which a store operation fails leaves the
\* user cart, the guest cart and both item sets exactly as before the call
\* (stated for a merge that is the only request so far, whose "before" is
\* the initial tables).
C22_Claimed ==
  [][\A p \in Procs :
       (/\ pc[p] \in MergePcs
        /\ resp'[p].kind = "server_error"
        /\ nops = 1) =>
         /\ carts' = UserAndGuestCart.carts
         /\ cart_items' = UserAndGuestCart.cart_items]_vars

(* Allocation audit *)

\* C23: for an admin caller and a payment id, the audit answers not-found
\* exactly when no payment has that id; otherwise children_count is the
\* number of payments linked to the id, master_amount the payment's
\* amount, allocated_total the sum of the linked payments' amounts, and
\* allocation_match is true exactly when the two amounts are equal; no
\* step of the call writes a table.
C23_AllocationAudit ==
  [][\A p \in Procs :
       /\ \A id \in AuditIds :
            (/\ pc[p] = "idle" /\ nops' # nops /\ id >= 1
             /\ AllocationsBegin(p, TRUE, id)) =>
              /\ (resp'[p].kind = "no_data") <=>
                   ~(\E i \in 1..Len(payments) : i = id)
              /\ resp'[p].kind \in {"no_data", "none"}
              /\ dbvars' = dbvars /\ cartvars' = cartvars
       /\ (pc[p] = "al_children" /\ pc'[p] = "idle") =>
            LET id == loc[p].id
                linked == {i \in 1..Len(payments) :
                             payments[i].linked_payment_id = id}
                sum == SumOver(linked, [i \in 1..Len(payments) |->
                                          payments[i].amount])
            IN /\ resp'[p].kind = "allocations"
               /\ resp'[p].children_count = Cardinality(linked)
               /\ resp'[p].master_amount = payments[id].amount
               /\ resp'[p].allocated_total = sum
               /\ resp'[p].allocation_match = (payments[id].amount = sum)
               /\ dbvars' = dbvars /\ cartvars' = cartvars]_vars

\* the audit of the settled master payment matched (20 = 10 + 10), and
\* the audit of a child's payment, which has no linked payments, did not
\* (10 against 0)
C23_Witness ==
  \E p, q \in Procs :
    /\ resp[p].kind = "allocations" /\ resp[p].payment_id = 1
    /\ resp[p].children_count = 2
    /\ resp[p].master_amount = 20 /\ resp[p].allocated_total = 20
    /\ resp[p].allocation_match
    /\ resp[q].kind = "allocations" /\ resp[q].payment_id = 2
    /\ resp[q].children_count = 0
    /\ resp[q].master_amount = 10 /\ resp[q].allocated_total = 0
    /\ ~resp[q].allocation_match

(* Order hierarchy against payment hierarchy *)

\* C24: whenever a master order is paid, payment_failed or refunded, each
\* of its child orders has the same status, and every payment linked to a
\* payment of the master has the status of that payment.
C24_Claimed ==
  \A m \in 1..Len(orders) :
    (IsMaster(orders[m])
       /\ orders[m].status \in {"paid", "payment_failed", "refunded"}) =>
      /\ \A c \in ChildrenOf(orders, m) : orders[c].status = orders[m].status
      /\ \A i \in 1..Len(payments) :
           payments[i].order_id = m =>
             \A j \in LinkedRows(payments, i) :
               payments[j].status = payments[i].status

(* Cart-sourced checkout *)

CartCheckoutCommits(p) == pc[p] = "cc_run" /\ pc'[p] = "idle"

\* C25: in POST /orders and in checkoutCartToOrders, a line that asks for
\* more than the product's on-hand quantity makes the checkout fail and
\* leaves the quantities unchanged.
C25_Claimed ==
  [][\A p \in Procs :
       /\ (CheckoutReturns(p) /\ ShortLines(p) # {}) =>
            resp'[p].kind # "created" /\ products' = products
       /\ (CartCheckoutCommits(p) /\ ShortLines(p) # {}) =>
            ~resp'[p].success /\ products' = products]_vars

\* C26: checkoutCartToOrders takes the order total and every order item
\* price from the product's price at checkout time.
C26_Claimed ==
  [][\A p \in Procs :
       CartCheckoutCommits(p) =>
         LET its == {k \in 1..Len(loc[p].items) :
                       loc[p].items[k].product_id \in DOMAIN products}
             o == Len(orders) + 1
         IN /\ Len(orders') = o
            /\ orders'[o].total_amount =
                 SumOver(its, [k \in 1..Len(loc[p].items) |->
                                 products[loc[p].items[k].product_id].price
                                   * loc[p].items[k].quantity])
            /\ \A i \in 1..Len(order_items') :
                 order_items'[i].order_id = o =>
                   order_items'[i].unit_price =
                     products[order_items'[i].product_id].price]_vars

(* Lock order of concurrent checkouts *)

\* p waits for a product row that q holds
WaitsFor(p, q) ==
  /\ pc[p] = "co_lock"
  /\ want[p] # <<>>
  /\ Head(want[p]) \in held[q]

OrphanLines(p) ==
  {i \in 1..Len(loc[p].items) :
     /\ loc[p].items[i].product_id \in DOMAIN products
     /\ products[loc[p].items[i].product_id].vendor_id = NULL}

\* C28 as claimed: a request that names a product without a vendor id is
\* answered with the orphan-product error and nothing of it persists.
C28_Claimed ==
  [][\A p \in Procs :
       (CheckoutReturns(p) /\ OrphanLines(p) # {}) =>
         /\ resp'[p].kind = "no_vendor"
         /\ dbvars' = dbvars]_vars

\* C28 amended: a request that names a product without a vendor id
\* creates nothing and changes no stock, however many other lines have a
\* vendor; its answer is the orphan-product error for the first such line
\* when every line names an existing product that is in stock, and else
\* the product-not-found or insufficient-stock answer of the validation.
C28_OrphanAborts ==
  [][\A p \in Procs :
       (CheckoutReturns(p) /\ OrphanLines(p) # {}) =>
         /\ dbvars' = dbvars
         /\ IF MissingLines(p) = {} /\ ShortLines(p) = {}
            THEN /\ resp'[p].kind = "no_vendor"
                 /\ resp'[p].code = 400
                 /\ \E i \in OrphanLines(p) :
                      /\ resp'[p].product_id = loc[p].items[i].product_id
                      /\ \A j \in OrphanLines(p) : i <= j
            ELSE resp'[p].kind \in {"no_data", "insufficient_stock"}]_vars

\* the orphan-product answer for a request whose first line had a vendor,
\* next to an insufficient-stock answer; nothing was created
C28_Witness ==
  \E p, q \in Procs :
    /\ resp[p].kind = "no_vendor" /\ resp[p].product_id = 3
    /\ resp[q].kind = "insufficient_stock"
    /\ orders = <<>> /\ order_items = <<>>
    /\ products = OrphanProducts

(* Invalid items *)

\* C29: a POST /orders with an item of quantity <= 0 is rejected at once,
\* before a transaction is begun or a row is read; a request with an item
\* whose product id has no product row fails; neither creates an order or
\* an order item or changes stock.
C29_InvalidItemsFail ==
  [][\A p \in Procs :
       /\ \A u \in CheckoutUsers, r \in InvalidRequests :
            (/\ pc[p] = "idle" /\ nops' # nops
             /\ \E i \in 1..Len(r) : r[i].quantity <= 0
             /\ CheckoutBegin(p, u, r)) =>
              /\ resp'[p] = [kind |-> "validation_failed", code |-> 400]
              /\ pc'[p] = "idle"
              /\ held' = held /\ want' = want /\ loc' = loc
              /\ dbvars' = dbvars
       /\ (CheckoutReturns(p) /\ MissingLines(p) # {}) =>
            /\ resp'[p].kind \in {"no_data", "insufficient_stock"}
            /\ dbvars' = dbvars]_vars

\* one request was refused for a quantity of 0 without a transaction, the
\* other failed on product 4, which has no row, after it locked product 1;
\* nothing was created
C29_Witness ==
  \E p, q \in Procs :
    /\ resp[p] = [kind |-> "validation_failed", code |-> 400]
    /\ resp[q].kind = "no_data" /\ resp[q].product_id = 4
    /\ AllIdle
    /\ orders = <<>> /\ order_items = <<>> /\ products = InitProducts

(* Failures before the transaction *)

\* C30, for direct pay: a request that fails validation, and a request
\* for an order of another user, is answered without a transaction and
\* without a row lock, that is, whatever rows the other transactions
\* hold at that time.
C30_Claimed ==
  \A p \in Procs, u \in Users, o \in PayOrderIds, pr \in PayProviders,
     a \in PayAmounts :
    (/\ pc[p] = "idle"
     /\ nops < MaxPayOps
     /\ \/ ~PayBodyValid(o, pr, a)
        \/ o \in DOMAIN orders /\ orders[o].user_id # u) =>
      ENABLED PayBegin(p, u, o, pr, NoText, a)


----------------------------------------------------------------------------
(* Transaction claims *)

\* the transaction of slot p is over and its connection is back in the pool
Ended(p) == tx[p].state \in {"committed", "rolled_back"} /\ ~tx[p].conn

Fails(p) ==
  /\ resp'[p] = ServerError
  /\ pc[p] # "idle" \/ (nops' # nops /\ tx'[p] # tx[p])

\* C32 as claimed: whenever checkout, direct pay or webhook handling
\* answers with a server error, none of that call's writes is durable: the
\* four tables are as before the failing step and the call's transaction
\* is not committed, also when the read after the commit of POST /orders
\* is the statement that failed
C32_Claimed ==
  [][\A p \in Procs :
       Fails(p) => /\ UNCHANGED dbvars
                   /\ tx'[p].state # "committed"]_vars

\* results of the three handlers that report writes
SuccessKinds == {"created", "master_payment_recorded", "payment_recorded",
                 "updated"}

\* the rows a success result names are in the tables
Reported(r) ==
  CASE r.kind = "created" /\ r.code = 201 ->
         /\ r.master_id \in 1..Len(orders)
         /\ orders[r.master_id].parent_order_id = NULL
         /\ \A k \in 1..Len(r.child_orders) :
              /\ r.child_orders[k].order_id \in 1..Len(orders)
              /\ orders[r.child_orders[k].order_id].parent_order_id
                   = r.master_id
    [] r.kind = "master_payment_recorded" ->
         /\ r.master_payment_id \in 1..Len(payments)
         /\ payments[r.master_payment_id].order_id = r.master_order_id
    [] r.kind = "payment_recorded" ->
         /\ r.payment_id \in 1..Len(payments)
         /\ payments[r.payment_id].order_id = r.order_id
    [] OTHER -> r.payment_id \in 1..Len(payments)

\* C33: a success response of checkout, direct pay or the webhook handler is
\* emitted only after the transaction of the call has committed: whenever a
\* request has answered with a result that reports writes, its transaction
\* is committed, its connection is released and the reported rows are in
\* the tables, whatever statement the store rejected in this or in
\* another request
C33_SuccessAfterCommit ==
  \A p \in Procs :
    (pc[p] = "idle" /\ resp[p].kind \in SuccessKinds) =>
      /\ tx[p] = [state |-> "committed", conn |-> FALSE]
      /\ Reported(resp[p])

\* a webhook updated the payment that a direct pay had committed, while the
\* store rejected nothing; and a checkout was answered with its new orders
C33_Witness ==
  \E p, q \in Procs :
    /\ pc[p] = "idle" /\ pc[q] = "idle"
    /\ resp[p].kind = "created" /\ resp[p].code = 201
    /\ resp[p].master_id = 4
    /\ resp[q].kind \in {"updated", "payment_recorded"}
    /\ tx[q].state = "committed"


----------------------------------------------------------------------------
(* Webhook secret *)

\* slot p starts on a webhook request in this step
Receives(p) == pc[p] = "idle" /\ nops' # nops

\* the step turns the request away before the store is touched
TurnedAway(p, kind, code) ==
  /\ resp'[p] = [kind |-> kind, code |-> code]
  /\ pc'[p] = "idle"
  /\ tx'[p] = TxNone
  /\ held'[p] = {}
  /\ UNCHANGED <<dbvars, cartvars>>

\* C34 as claimed: with a secret configured, every webhook request whose
\* secret header is absent or different is rejected as unauthorized before
\* any store access, all tables unchanged
C34_Claimed ==
  [][\A p \in Procs, s \in WebhookSecrets, h \in WebhookHeaders,
        pr \in WebhookProviders, pp \in WebhookPpids,
        st \in SecretStatuses, o \in SecretOrderIds :
       (Receives(p) /\ s # NoText /\ h # s
        /\ WebhookReceive(p, s, h, pr, pp, st, o)) =>
         TurnedAway(p, "unauthorized", 401)]_vars

\* C34: with a secret configured, a webhook request whose secret header is
\* absent or different is turned away before any store access (no
\* transaction, no lock) with all tables unchanged: as unauthorized (401)
\* when its body passes the validators, with the validation error (400)
\* when it does not, because the validators run first. With the right
\* header, or with no secret configured whatever the header, the request is
\* processed exactly as the handler without the check processes it.
C34_SecretGate ==
  [][\A p \in Procs, s \in WebhookSecrets, h \in WebhookHeaders,
        pr \in WebhookProviders, pp \in WebhookPpids,
        st \in SecretStatuses, o \in SecretOrderIds :
       (Receives(p) /\ WebhookReceive(p, s, h, pr, pp, st, o)) =>
         IF s # NoText /\ h # s
         THEN IF pr # NoText /\ pp # NoText /\ st # NoText
              THEN TurnedAway(p, "unauthorized", 401)
              ELSE TurnedAway(p, "validation_failed", 400)
         ELSE /\ resp'[p].kind # "unauthorized"
              /\ WebhookBegin(p, pr, pp, st, o)]_vars

\* a request without the header was turned away while a secret is
\* configured, and one with any header went through to a commit
C34_Witness ==
  \E p, q \in Procs :
    /\ resp[p] = [kind |-> "unauthorized", code |-> 401]
    /\ resp[q].kind = "created" /\ tx[q].state = "committed"


----------------------------------------------------------------------------
(* Shape of the orders of a checkout *)

IsChild(tbl, k) ==
  /\ tbl[k].vendor_id # NULL
  /\ tbl[k].parent_order_id \in 1..Len(tbl)
  /\ tbl[tbl[k].parent_order_id].vendor_id = NULL
  /\ tbl[tbl[k].parent_order_id].parent_order_id = NULL

\* vendors of the products a checkout asks for
VendorsAsked(p) ==
  {products[loc[p].items[i].product_id].vendor_id :
     i \in 1..Len(loc[p].items)}

\* C35: every order created by POST /orders is a master (vendor_id null,
\* parent_order_id null) or a child (vendor_id non-null, parent_order_id
\* the id of a master); the children of one master have different vendors;
\* every order_item belongs to a child and references a product of that
\* child's vendor; a checkout that commits creates one master and, with
\* that master as parent, exactly one child per distinct vendor among its
\* products; and no step of a later checkout, direct pay, webhook or admin
\* status update changes the vendor_id or parent_order_id of an order
C35_OrderShape ==
  /\ [](\A k \in 1..Len(orders) :
          \/ orders[k].vendor_id = NULL /\ orders[k].parent_order_id = NULL
          \/ IsChild(orders, k))
  /\ [](\A j, k \in 1..Len(orders) :
          (j # k /\ orders[j].parent_order_id # NULL
           /\ orders[j].parent_order_id = orders[k].parent_order_id) =>
            orders[j].vendor_id # orders[k].vendor_id)
  /\ [](\A i \in 1..Len(order_items) :
          /\ IsChild(orders, order_items[i].order_id)
          /\ products0[order_items[i].product_id].vendor_id
               = orders[order_items[i].order_id].vendor_id)
  /\ [][\A p \in Procs :
          (pc[p] = "co_run" /\ resp'[p].kind = "created") =>
            LET m == Len(orders) + 1
                new == (m + 1)..Len(orders')
            IN /\ Len(orders') = m + Cardinality(VendorsAsked(p))
               /\ orders'[m].vendor_id = NULL
               /\ orders'[m].parent_order_id = NULL
               /\ \A k \in new : orders'[k].parent_order_id = m
               /\ {orders'[k].vendor_id : k \in new} = VendorsAsked(p)]_vars
  /\ [][/\ Len(orders') >= Len(orders)
         /\ \A k \in 1..Len(orders) :
              /\ orders'[k].vendor_id = orders[k].vendor_id
              /\ orders'[k].parent_order_id = orders[k].parent_order_id]_vars

\* a checkout of products 1 and 3, both of vendor 1, and of nothing else
\* made one child; afterwards the master was paid, its child with it
C35_Witness ==
  /\ Len(orders) = 2
  /\ Len(order_items) = 2
  /\ orders[2].vendor_id = 1 /\ orders[2].parent_order_id = 1
  /\ orders[1].status = "paid" /\ orders[2].status = "paid"


----------------------------------------------------------------------------
(* Allocation of a direct pay on a master order *)

AmountOf == [i \in 1..Len(payments) |-> payments[i].amount]

\* payments of a master order that carry the order's total
FullMasterPayments ==
  {m \in 1..Len(payments) :
     /\ payments[m].linked_payment_id = NULL
     /\ orders[payments[m].order_id].parent_order_id = NULL
     /\ payments[m].amount = orders[payments[m].order_id].total_amount}

\* C36: after a direct pay on a master order created by POST /orders, made
\* without a caller-supplied amount, the master payment carries the order's
\* total, the payments linked to it are one per child order and their
\* amounts sum to the master payment's amount, at the commit and in every
\* later state; and the allocation audit of such a payment reports
\* allocation_match = true
C36_AllocationMatches ==
  /\ [][\A p \in Procs :
          (pc[p] = "pay_run" /\ pc'[p] = "idle"
           /\ loc[p].order.parent_order_id = NULL /\ loc[p].amount = 0) =>
            LET m == Len(payments) + 1
            IN /\ payments'[m].amount = orders[loc[p].orderId].total_amount
               /\ payments'[m].order_id = loc[p].orderId
               /\ m \in FullMasterPayments']_vars
  /\ [](\A m \in FullMasterPayments :
          /\ SumOver(LinkedRows(payments, m), AmountOf) = payments[m].amount
          /\ {payments[i].order_id : i \in LinkedRows(payments, m)}
               = ChildIds(orders, payments[m].order_id)
          /\ Cardinality(LinkedRows(payments, m))
               = Cardinality(ChildIds(orders, payments[m].order_id)))
  /\ [](\A p \in Procs :
          (resp[p].kind = "allocations"
           /\ resp[p].payment_id \in FullMasterPayments) =>
            resp[p].allocation_match)

\* the master order of two children was paid without an amount and the
\* audit of its payment found 2 linked payments and a match
C36_Witness ==
  \E p, q \in Procs :
    /\ resp[p].kind = "master_payment_recorded"
    /\ resp[p].children_count = 2
    /\ resp[p].master_payment_id \in FullMasterPayments
    /\ resp[q].kind = "allocations"
    /\ resp[q].payment_id = resp[p].master_payment_id
    /\ resp[q].children_count = 2
    /\ resp[q].allocation_match


----------------------------------------------------------------------------
(* Settling an order once *)

PaidRows(o) ==
  {i \in 1..Len(payments) :
     payments[i].order_id = o /\ payments[i].status = "paid"}

\* C37 as claimed: over any sequence or interleaving of direct-pay calls on
\* a master order and on its child orders, once all calls have finished no
\* order has more than one payment row of status paid
C37_Claimed ==
  AllIdle => \A o \in 1..Len(orders) : Cardinality(PaidRows(o)) <= 1


----------------------------------------------------------------------------
(* Frame of a payment on a child order *)

\* slot p commits a direct pay or a webhook whose order is a child order
CommitsOnChild(p) ==
  /\ pc[p] \in {"pay_run", "wh_run"}
  /\ pc'[p] = "idle"
  /\ loc[p].order.parent_order_id # NULL

\* C38: a direct pay or a webhook applied to a child order (the order of
\* the URL, the order of the payment the webhook found, or the order_id of
\* the webhook body when it found no payment) changes nothing but the
\* status of that child order, and in the payments table it only adds rows
\* of that child order or changes the status of a row of that child order:
\* the master order, the sibling child orders, their payments, the
\* order_items and the products are unchanged
C38_ChildFrame ==
  [][\A p \in Procs :
       CommitsOnChild(p) =>
         LET c == loc[p].order.id
         IN /\ Len(orders') = Len(orders)
            /\ \A k \in 1..Len(orders) :
                 /\ k # c => orders'[k] = orders[k]
                 /\ [orders'[k] EXCEPT !.status = orders[k].status]
                      = orders[k]
            /\ Len(payments') >= Len(payments)
            /\ \A i \in 1..Len(payments) :
                 /\ payments[i].order_id # c => payments'[i] = payments[i]
                 /\ [payments'[i] EXCEPT !.status = payments[i].status]
                      = payments[i]
            /\ \A i \in (Len(payments) + 1)..Len(payments') :
                 payments'[i].order_id = c
            /\ UNCHANGED <<products, order_items>>]_vars

\* a webhook reported the payment of child order 2 as failed, and child
\* order 3 was paid directly: the master order is still pending
C38_Witness ==
  /\ AllIdle
  /\ orders[2].status = "payment_failed"
  /\ orders[3].status = "paid"
  /\ orders[1].status = "pending"
  /\ Len(payments) = 2
  /\ \E p \in Procs : resp[p].kind = "payment_recorded"


----------------------------------------------------------------------------
(* Concurrent cart mutations *)

\* the guest cart "t1" of the initial tables and the units it holds
GuestCart == UserAndGuestCart.cart_id
GuestUnits == SumQuantity(UserAndGuestCart.cart_items, GuestCart)

\* C39 as claimed: for any interleaving of concurrent cart mutations on the
\* same cart, once all have finished every cart has at most one item row
\* per product, the header's item_count and total_amount equal the
\* aggregates of its item rows, and the quantities reflect every committed
\* add: after two adds of one unit to the guest cart, both answered with
\* success, the cart holds two units more than before
C39_Claimed ==
  AllIdle =>
    /\ \A c \in 1..Len(carts) :
         carts[c].live =>
           /\ \A id \in DOMAIN products :
                Cardinality(ExistingItems(cart_items, c, id)) <= 1
           /\ carts[c].item_count = SumQuantity(cart_items, c)
           /\ carts[c].total_amount = SumAmount(cart_items, c)
    /\ (nops = 2 /\ \A p \in Procs : resp[p].kind = "item_added") =>
         SumQuantity(cart_items, GuestCart) = GuestUnits + 2

====
